---- MODULE Spec2Model ----
(***************************************************************************)
(* certwatch-webhook-cli (Go implementation): the SSE stream parser        *)
(* (ConnectStream / dispatchEvent), the delivery client (DeliverPayload)   *)
(* and the orchestrator (Run) with its exit status.                        *)
(*                                                                         *)
(* Text is modelled as a sequence of one-character strings so that the     *)
(* prefix tests, the trimming and the JSON decoding are computed.          *)
(***************************************************************************)
EXTENDS Integers, Sequences, FiniteSets, TLC

\* ---------------------------------------------------------------- bounds
\* longest response body (in lines) of an orchestrator run
MaxLines == 3
\* longest response body (in lines) of a parser run
MaxParseLines == 3
\* longest response body (in lines) of a run over the event kinds
MaxStreamLines == 4
\* largest sequence index handed to a stand-alone DeliverPayload call
MaxIndex == 2
\* longest response body (in lines) of a run checked for termination
MaxLiveLines == 2
\* longest string handed to a stand-alone SignPayload call
MaxSignLen == 4
\* most outcomes handed to a stand-alone PrintSummary call
MaxOutcomes == 3
\* longest response body (in lines) of a run over the session replies
MaxSessionLines == 1

\* most records handed to the callback in a run followed lock by lock
MaxMutexRecords == 2

\* most records the Node stream hands to onPayload in a run
MaxNodeRecords == 2

\* longest stream (in lines) given to both parsers
MaxBothLines == 3

\* ------------------------------------------------------ strings (package strings)
HasPrefix(s, p) == Len(s) >= Len(p) /\ SubSeq(s, 1, Len(p)) = p

TrimPrefix(s, p) == IF HasPrefix(s, p) THEN SubSeq(s, Len(p) + 1, Len(s)) ELSE s

IsSpace(c) == c \in {" ", "\t", "\r"}

RECURSIVE TrimLeft(_)
TrimLeft(s) == IF s # <<>> /\ IsSpace(Head(s)) THEN TrimLeft(Tail(s)) ELSE s

RECURSIVE TrimRight(_)
TrimRight(s) ==
  IF s # <<>> /\ IsSpace(s[Len(s)]) THEN TrimRight(SubSeq(s, 1, Len(s) - 1)) ELSE s

TrimSpace(s) == TrimRight(TrimLeft(s))

\* ------------------------------------------------------ JSON (encoding/json)
\* The decoder covers compact JSON built from objects, strings without
\* escapes, unsigned integers and null: the shapes the stream bodies use.
Quote == "\""

Digits == {"0", "1", "2", "3", "4", "5", "6", "7", "8", "9"}

NoValue == [ok |-> FALSE, next |-> 0, val |-> [t |-> "null"]]

RECURSIVE FindQuote(_, _)
FindQuote(s, i) ==
  IF i > Len(s) THEN 0 ELSE IF s[i] = Quote THEN i ELSE FindQuote(s, i + 1)

ParseString(s, i) ==
  IF i <= Len(s) /\ s[i] = Quote /\ FindQuote(s, i + 1) # 0
  THEN LET j == FindQuote(s, i + 1)
       IN  [ok |-> TRUE, next |-> j + 1, val |-> [t |-> "str", v |-> SubSeq(s, i + 1, j - 1)]]
  ELSE NoValue

RECURSIVE DigitsEnd(_, _)
DigitsEnd(s, i) == IF i <= Len(s) /\ s[i] \in Digits THEN DigitsEnd(s, i + 1) ELSE i

ParseNumber(s, i) ==
  IF DigitsEnd(s, i) > i
  THEN [ok |-> TRUE, next |-> DigitsEnd(s, i),
        val |-> [t |-> "num", v |-> SubSeq(s, i, DigitsEnd(s, i) - 1)]]
  ELSE NoValue

ParseNull(s, i) ==
  IF i + 3 <= Len(s) /\ SubSeq(s, i, i + 3) = <<"n", "u", "l", "l">>
  THEN [ok |-> TRUE, next |-> i + 4, val |-> [t |-> "null"]]
  ELSE NoValue

RECURSIVE ParseValue(_, _)
RECURSIVE ParseMembers(_, _, _)
ParseMembers(s, i, acc) ==
  LET k == ParseString(s, i)
  IN  IF ~k.ok \/ k.next > Len(s) \/ s[k.next] # ":" THEN NoValue
      ELSE LET v == ParseValue(s, k.next + 1)
               all == Append(acc, <<k.val.v, v.val>>)
           IN  IF ~v.ok \/ v.next > Len(s) THEN NoValue
               ELSE IF s[v.next] = "," THEN ParseMembers(s, v.next + 1, all)
               ELSE IF s[v.next] = "}"
                    THEN [ok |-> TRUE, next |-> v.next + 1, val |-> [t |-> "obj", v |-> all]]
               ELSE NoValue

ParseObject(s, i) ==
  IF i + 1 <= Len(s) /\ s[i + 1] = "}"
  THEN [ok |-> TRUE, next |-> i + 2, val |-> [t |-> "obj", v |-> <<>>]]
  ELSE ParseMembers(s, i + 1, <<>>)

ParseValue(s, i) ==
  IF i > Len(s) THEN NoValue
  ELSE IF s[i] = "{" THEN ParseObject(s, i)
  ELSE IF s[i] = Quote THEN ParseString(s, i)
  ELSE IF s[i] \in Digits THEN ParseNumber(s, i)
  ELSE ParseNull(s, i)

\* a whole document: one value and nothing after it
ParseJSON(s) ==
  LET r == ParseValue(s, 1)
  IN  IF r.ok /\ r.next = Len(s) + 1 THEN r ELSE NoValue

\* ------------------------------------------------------ domain types (types.go)
K_event_id == <<"e", "v", "e", "n", "t", "_", "i", "d">>

K_timestamp == <<"t", "i", "m", "e", "s", "t", "a", "m", "p">>

K_data == <<"d", "a", "t", "a">>

K_common_name == <<"c", "o", "m", "m", "o", "n", "_", "n", "a", "m", "e">>

K_testId == <<"t", "e", "s", "t", "I", "d">>

K_streamDurationSeconds ==
  <<"s", "t", "r", "e", "a", "m", "D", "u", "r", "a", "t", "i", "o", "n",
    "S", "e", "c", "o", "n", "d", "s">>

\* the fields of WebhookPayload the model follows: event_id, timestamp and
\* data.common_name; the zero value is the struct before decoding
WebhookPayload == [EventID |-> <<>>, Timestamp |-> <<>>, CommonName |-> <<>>]

StreamMeta == [TestID |-> <<>>, StreamDurationSeconds |-> 0]

DigitValue(c) ==
  CASE c = "0" -> 0 [] c = "1" -> 1 [] c = "2" -> 2 [] c = "3" -> 3 [] c = "4" -> 4
    [] c = "5" -> 5 [] c = "6" -> 6 [] c = "7" -> 7 [] c = "8" -> 8 [] c = "9" -> 9

RECURSIVE Atoi(_)
Atoi(ds) == IF ds = <<>> THEN 0 ELSE 10 * Atoi(SubSeq(ds, 1, Len(ds) - 1)) + DigitValue(ds[Len(ds)])

\* json.Unmarshal stores a value in a field of the matching type, leaves the
\* field alone on null, and reports an error for any other type; it keeps
\* decoding after a type error and returns the error at the end.
RECURSIVE DecodeData(_, _, _)
DecodeData(members, i, acc) ==
  IF i > Len(members) THEN acc
  ELSE LET key == members[i][1]
           val == members[i][2]
       IN  IF key = K_common_name /\ val.t = "str"
           THEN DecodeData(members, i + 1, [acc EXCEPT !.v.CommonName = val.v])
           ELSE IF key = K_common_name /\ val.t # "null"
           THEN DecodeData(members, i + 1, [acc EXCEPT !.ok = FALSE])
           ELSE DecodeData(members, i + 1, acc)

RECURSIVE DecodePayload(_, _, _)
DecodePayload(members, i, acc) ==
  IF i > Len(members) THEN acc
  ELSE LET key == members[i][1]
           val == members[i][2]
           next ==
             IF key = K_event_id
             THEN IF val.t = "str" THEN [acc EXCEPT !.v.EventID = val.v]
                  ELSE IF val.t = "null" THEN acc ELSE [acc EXCEPT !.ok = FALSE]
             ELSE IF key = K_timestamp
             THEN IF val.t = "str" THEN [acc EXCEPT !.v.Timestamp = val.v]
                  ELSE IF val.t = "null" THEN acc ELSE [acc EXCEPT !.ok = FALSE]
             ELSE IF key = K_data
             THEN IF val.t = "obj" THEN DecodeData(val.v, 1, acc)
                  ELSE IF val.t = "null" THEN acc ELSE [acc EXCEPT !.ok = FALSE]
             ELSE acc
       IN  DecodePayload(members, i + 1, next)

RECURSIVE DecodeMeta(_, _, _)
DecodeMeta(members, i, acc) ==
  IF i > Len(members) THEN acc
  ELSE LET key == members[i][1]
           val == members[i][2]
           next ==
             IF key = K_testId
             THEN IF val.t = "str" THEN [acc EXCEPT !.v.TestID = val.v]
                  ELSE IF val.t = "null" THEN acc ELSE [acc EXCEPT !.ok = FALSE]
             ELSE IF key = K_streamDurationSeconds
             THEN IF val.t = "num" THEN [acc EXCEPT !.v.StreamDurationSeconds = Atoi(val.v)]
                  ELSE IF val.t = "null" THEN acc ELSE [acc EXCEPT !.ok = FALSE]
             ELSE acc
       IN  DecodeMeta(members, i + 1, next)

\* json.Unmarshal([]byte(data), &payload): err == nil is .ok, payload is .v
UnmarshalPayload(data) ==
  LET r == ParseJSON(data)
  IN  IF ~r.ok THEN [ok |-> FALSE, v |-> WebhookPayload]
      ELSE IF r.val.t = "null" THEN [ok |-> TRUE, v |-> WebhookPayload]
      ELSE IF r.val.t = "obj" THEN DecodePayload(r.val.v, 1, [ok |-> TRUE, v |-> WebhookPayload])
      ELSE [ok |-> FALSE, v |-> WebhookPayload]

\* json.Unmarshal([]byte(data), &meta)
UnmarshalMeta(data) ==
  LET r == ParseJSON(data)
  IN  IF ~r.ok THEN [ok |-> FALSE, v |-> StreamMeta]
      ELSE IF r.val.t = "null" THEN [ok |-> TRUE, v |-> StreamMeta]
      ELSE IF r.val.t = "obj" THEN DecodeMeta(r.val.v, 1, [ok |-> TRUE, v |-> StreamMeta])
      ELSE [ok |-> FALSE, v |-> StreamMeta]

\* json.Marshal(payload): the compact form, fields in declaration order
Str(s) == <<Quote>> \o s \o <<Quote>>

MarshalPayload(p) ==
  <<"{">> \o Str(K_event_id) \o <<":">> \o Str(p.EventID) \o <<",">>
    \o Str(K_timestamp) \o <<":">> \o Str(p.Timestamp) \o <<",">>
    \o Str(K_data) \o <<":", "{">> \o Str(K_common_name) \o <<":">> \o Str(p.CommonName)
    \o <<"}", "}">>

\* ------------------------------------------------------ delivery client (sender.go)
\* http.StatusText for the codes the model uses; any other code has no text
StatusText(code) ==
  CASE code = 200 -> "OK"
    [] code = 204 -> "No Content"
    [] code = 301 -> "Moved Permanently"
    [] code = 404 -> "Not Found"
    [] code = 500 -> "Internal Server Error"
    [] OTHER -> ""

\* SignPayload: the digest is kept symbolic, as the pair it is a function of
SignPayload(signedBody, key) == <<"hmac-sha256", key, signedBody>>

\* crypto/sha256: Size, the bytes of a digest
Sha256Size == 32

HexTable == <<"0", "1", "2", "3", "4", "5", "6", "7", "8", "9", "a", "b", "c", "d", "e", "f">>

CharCode(c) == CASE c = "a" -> 97 [] c = "b" -> 98 [] OTHER -> 63

RECURSIVE Checksum(_)
Checksum(s) ==
  IF s = <<>> THEN 0 ELSE (CharCode(Head(s)) + 31 * Checksum(Tail(s))) % 65536

KeyCode(key) == CASE key = "" -> 0 [] key = "s1" -> 1 [] OTHER -> 2

\* mac.Sum(nil) after mac.Write(body): Sha256Size bytes fixed by the key and
\* the message; the arithmetic stands in for the keyed hash
HmacSum(key, msg) ==
  [i \in 1..Sha256Size |-> (97 * KeyCode(key) + Checksum(msg) + 7 * i) % 256]

\* a hex encoding writing a byte below 16 as one digit
RECURSIVE EncodeToString_unpadded(_)
EncodeToString_unpadded(bs) ==
  IF bs = <<>> THEN <<>>
  ELSE (IF Head(bs) < 16 THEN <<HexTable[Head(bs) + 1]>>
        ELSE <<HexTable[(Head(bs) \div 16) + 1], HexTable[(Head(bs) % 16) + 1]>>)
       \o EncodeToString_unpadded(Tail(bs))

\* hex.EncodeToString: two digits per byte, high nibble first
EncodeToString(bs) ==
  [j \in 1..(2 * Len(bs)) |->
     IF j % 2 = 1 THEN HexTable[(bs[(j + 1) \div 2] \div 16) + 1]
     ELSE HexTable[(bs[j \div 2] % 16) + 1]]

\* SignPayload, lines 18-22: the characters of the string it returns
SignPayloadHex(signedBody, key) == EncodeToString(HmacSum(key, signedBody))

DeliveryResult(index, commonName) ==
  [Index |-> index, CommonName |-> commonName, Status |-> 0, StatusText |-> "",
   LatencyMs |-> 0, Success |-> FALSE, Error |-> ""]

\* What the outside world does to one DeliverPayload call: json.Marshal
\* fails, http.NewRequest fails, client.Do fails (transport error or the 10 s
\* timeout), or a response with a status code arrives.
Latencies == {10}

StatusCodes == {0, 199, 200, 204, 299, 300, 301, 404, 500}

DeliveryEnvs ==
  [kind : {"marshal", "request", "transport"}, status : {0}, latency : Latencies]
    \cup [kind : {"response"}, status : StatusCodes, latency : Latencies]

\* the outcomes an orchestrator run draws from
RunDeliveryEnvs ==
  {e \in DeliveryEnvs : e.kind = "transport" \/ (e.kind = "response" /\ e.status = 200)}

\* DeliverPayload with the upper bound of the success range taken inclusive
DeliverPayload_inclusive(p, targetURL, key, index, env) ==
  LET r0 == DeliveryResult(index, p.CommonName)
  IN  IF env.kind = "marshal"
      THEN [r0 EXCEPT !.Error = "failed to marshal payload"]
      ELSE IF env.kind = "request"
      THEN [r0 EXCEPT !.Error = "failed to create request"]
      ELSE IF env.kind = "transport"
      THEN [r0 EXCEPT !.LatencyMs = env.latency, !.Error = "delivery failed"]
      ELSE LET success == env.status >= 200 /\ env.status <= 300
           IN  [r0 EXCEPT !.LatencyMs = env.latency,
                          !.Status = env.status,
                          !.StatusText = StatusText(env.status),
                          !.Success = success,
                          !.Error = IF ~success THEN "received status" ELSE ""]

DeliverPayload(p, targetURL, key, index, env) ==
  LET r0 == DeliveryResult(index, p.CommonName)
  IN  IF env.kind = "marshal"
      THEN [r0 EXCEPT !.Error = "failed to marshal payload"]
      ELSE IF env.kind = "request"
      THEN [r0 EXCEPT !.Error = "failed to create request"]
      ELSE IF env.kind = "transport"
      THEN [r0 EXCEPT !.LatencyMs = env.latency, !.Error = "delivery failed"]
      ELSE LET success == env.status >= 200 /\ env.status < 300
           IN  [r0 EXCEPT !.LatencyMs = env.latency,
                          !.Status = env.status,
                          !.StatusText = StatusText(env.status),
                          !.Success = success,
                          !.Error = IF ~success THEN "received status" ELSE ""]

\* the POST DeliverPayload issues, when it gets as far as client.Do
DeliveryRequest(p, targetURL, key) ==
  [url |-> targetURL, body |-> MarshalPayload(p), eventId |-> p.EventID,
   timestamp |-> p.Timestamp, signature |-> <<"sha256=", SignPayload(MarshalPayload(p), key)>>]

\* checkForFailures looking at the last delivery only
checkForFailures_last(rs) ==
  IF Len(rs) > 0 /\ ~rs[Len(rs)].Success THEN "some deliveries failed" ELSE "nil"

\* checkForFailures: an error iff some delivery failed
checkForFailures(rs) ==
  IF \E i \in 1..Len(rs) : ~rs[i].Success THEN "some deliveries failed" ELSE "nil"

\* ------------------------------------------------------ stream lines
EventPrefix == <<"e", "v", "e", "n", "t", ":">>

DataPrefix == <<"d", "a", "t", "a", ":">>

KindMeta == <<"m", "e", "t", "a">>

KindComplete == <<"c", "o", "m", "p", "l", "e", "t", "e">>

KindError == <<"e", "r", "r", "o", "r">>

BodyA == <<"{">> \o Str(K_event_id) \o <<":">> \o Str(<<"a">>) \o <<"}">>

BodyB ==
  <<"{">> \o Str(K_event_id) \o <<":">> \o Str(<<"b">>) \o <<",">> \o Str(K_data)
    \o <<":", "{">> \o Str(K_common_name) \o <<":">> \o Str(<<"b", ".", "i", "o">>) \o <<"}", "}">>

BodyBad == <<"{", "n", "o", "t", " ", "j", "s", "o", "n">>

BodyMeta ==
  <<"{">> \o Str(K_testId) \o <<":">> \o Str(<<"t", "1">>) \o <<",">>
    \o Str(K_streamDurationSeconds) \o <<":", "6", "0", "}">>

LineComment == <<":", "h", "i">>

LineEmpty == <<>>

LineEventMeta == EventPrefix \o <<" ">> \o KindMeta

LineEventError == EventPrefix \o <<" ">> \o KindError

LineEventComplete == EventPrefix \o KindComplete \o <<" ">>

LineDataA == DataPrefix \o <<" ">> \o BodyA

LineDataB == DataPrefix \o BodyB \o <<" ">>

LineDataBad == DataPrefix \o <<" ">> \o BodyBad

LineDataMeta == DataPrefix \o <<" ">> \o BodyMeta

LineOther == <<"r", "e", "t", "r", "y", ":", " ", "5">>

LineIndented == <<" ">> \o LineDataA

LineDataEmptyObject == DataPrefix \o <<" ", "{", "}">>

\* the lines an orchestrator run's stream is made of
RunLines == {LineDataA, LineDataB, LineEventError, LineEmpty}

\* the lines a parser run's stream is made of
ParseLines ==
  {LineComment, LineEmpty, LineEventMeta, LineEventError, LineEventComplete,
   LineDataA, LineDataB, LineDataBad, LineDataMeta, LineOther, LineIndented}

\* the lines of a run over the event kinds: records, a body that does not
\* decode, and the meta, error and complete kinds
StreamLines ==
  {LineDataA, LineDataBad, LineEventMeta, LineEventError, LineEventComplete, LineEmpty}

\* the lines of a run that may start with a meta event or with a record
ConnectLines == {LineDataA, LineEventMeta, LineDataMeta, LineEmpty}

\* every sequence over S of length at most n
SeqsUpTo(S, n) == UNION {[1..k -> S] : k \in 0..n}

\* ------------------------------------------------------ state
VARIABLES
  opts,            \* CliOptions handed to Run
  body,            \* the lines of the stream response body, as the server sends them
  sessionEnv,      \* what becomes of the POST CreateSession sends to the session API
  pos,             \* number of lines scanner.Scan has returned
  ctxDone,         \* the signal context is cancelled (SIGINT/SIGTERM received)
  pc,              \* position of Run / ConnectStream / the OnPayload callback
  secret,          \* Run: secret
  streamDuration,  \* Run: streamDuration
  streamRequest,   \* the GET ConnectStream sent to open the stream
  outFile,         \* Run: outFile ("nil", "open", "closed")
  file,            \* the lines of the JSONL file at opts.File
  stdout,          \* what has been written to standard output
  connectedOnce,   \* Run: connectedOnce has fired
  index,           \* Run: index
  currentIndex,    \* OnPayload: currentIndex
  results,         \* Run: results
  filePayloads,    \* Run: filePayloads
  currentEvent,    \* ConnectStream: currentEvent
  payload,         \* OnPayload: payload
  result,          \* OnPayload: result
  posts,           \* HTTP POSTs issued to the target URL
  err,             \* Run: err, what ConnectStream returned ("unset" before it returns)
  runErr,          \* what Run returned
  events,          \* the (eventType, data) pairs dispatchEvent has been called with
  calls,           \* the callbacks dispatchEvent has invoked
  mu,              \* Run: mu ("free" or "held")
  finalResults,    \* Run: finalResults, the copy of results taken under the mutex
  nodeEvent,       \* connectStream (Node): currentEvent
  nodeCalls        \* the callbacks connectStream (Node) has invoked

vars ==
  <<opts, body, sessionEnv, pos, ctxDone, pc, secret, streamDuration, streamRequest, outFile, file, stdout,
    connectedOnce, index, currentIndex, results, filePayloads, currentEvent,
    payload, result, posts, err, runErr, events, calls, mu, finalResults,
    nodeEvent, nodeCalls>>

mutexVars == <<mu, finalResults>>

nodeVars == <<nodeEvent, nodeCalls>>

sessionVars == <<secret, streamDuration, streamRequest>>

sinkVars == <<file, filePayloads, posts>>

recordVars == <<index, currentIndex, payload, result, results>>

parserVars == <<pos, currentEvent, events, calls>>

\* one line of standard output
Out(kind, n, text) == [k |-> kind, n |-> n, text |-> text]

\* the Print* helpers called whatever the mode
Printed_unguarded(raw, entries) == entries

\* the Print* helpers write to stdout; Run calls them only when !opts.Raw
Printed(raw, entries) == IF raw THEN <<>> ELSE entries

\* main: the flags that reach Run in a stream mode
CliOptions ==
  {o \in [URL : {"", "http://localhost:3000/webhook"}, Secret : {"", "s1"},
          APIKey : {"", "key"}, File : {"", "out.jsonl"}, Raw : BOOLEAN,
          Verbose : {FALSE}] :
     /\ ~(o.URL = "" /\ o.File = "" /\ ~o.Raw)
     /\ ~(o.APIKey = "" /\ o.Secret = "")}

\* a run whose only sink is the raw echo, as the parser's driver
ParseOptions ==
  {o \in CliOptions : o.URL = "" /\ o.File = "" /\ o.Raw /\ o.APIKey = ""}

\* ------------------------------------------------------ CreateSession (part_000)
\* the secret the session API returns: the caller's when one was sent
\* (CreateSession, lines 16-17), else one the server generated
SessionSecrets(userSecret) == IF userSecret # "" THEN {userSecret} ELSE {"srv"}

\* types.go, SessionData: the fields Run reads
SessionData(userSecret) ==
  [Secret : SessionSecrets(userSecret), StreamURL : {<<"sess.Data.StreamURL">>},
   StreamDurationSeconds : {60}]

SessionStatusCodes == {200, 201, 204, 401, 500}

\* secret mode: no session is asked for
NoSession ==
  [kind |-> "none", status |-> 0, decodes |-> FALSE, success |-> FALSE,
   data |-> <<>>, error |-> "nil"]

\* what can become of the POST: the request cannot be built, client.Do
\* fails, or a response arrives, whose body decodes into a SessionResponse
\* (Success, Data and Error; a nil Data is <<>>) or does not
SessionEnvs(userSecret) ==
  {[NoSession EXCEPT !.kind = k] : k \in {"request", "transport"}}
    \cup {[NoSession EXCEPT !.kind = "response", !.status = st] : st \in SessionStatusCodes}
    \cup [kind : {"response"}, status : SessionStatusCodes, decodes : {TRUE},
          success : BOOLEAN, data : {<<>>} \cup {<<d>> : d \in SessionData(userSecret)},
          error : {"nil", "set"}]

\* the replies an orchestrator run draws from: a session, or no connection
RunSessionEnvs(userSecret) ==
  {e \in SessionEnvs(userSecret) :
     \/ e.kind = "transport"
     \/ e.kind = "response" /\ e.status = 200 /\ e.success /\ e.data # <<>>
          /\ e.error = "nil"}

\* CreateSession taking every response that decodes, whatever its status
CreateSession_anyStatus(env, cancelled) ==
  IF env.kind = "request"
  THEN [err |-> "failed to create session request", sess |-> <<>>]
  ELSE IF cancelled \/ env.kind = "transport"
  THEN [err |-> "failed to create session", sess |-> <<>>]
  ELSE IF ~env.decodes
  THEN [err |-> "failed to decode session response", sess |-> <<>>]
  ELSE IF ~env.success \/ env.data = <<>>
  THEN [err |-> IF env.error # "nil" THEN "session creation failed"
                ELSE "session creation returned unsuccessful response",
        sess |-> <<>>]
  ELSE [err |-> "nil", sess |-> <<[Success |-> env.success, Data |-> env.data,
                                   Error |-> env.error]>>]

\* CreateSession, lines 18-71: the session, or the error; client.Do carries
\* the signal context, so it fails once that is cancelled
CreateSession(env, cancelled) ==
  IF env.kind = "request"
  THEN [err |-> "failed to create session request", sess |-> <<>>]
  ELSE IF cancelled \/ env.kind = "transport"
  THEN [err |-> "failed to create session", sess |-> <<>>]
  ELSE IF env.status # 200 /\ env.status # 201
  THEN [err |-> IF env.decodes /\ env.error # "nil" THEN "session creation failed"
                ELSE "session creation failed with status",
        sess |-> <<>>]
  ELSE IF ~env.decodes
  THEN [err |-> "failed to decode session response", sess |-> <<>>]
  ELSE IF ~env.success \/ env.data = <<>>
  THEN [err |-> IF env.error # "nil" THEN "session creation failed"
                ELSE "session creation returned unsuccessful response",
        sess |-> <<>>]
  ELSE [err |-> "nil", sess |-> <<[Success |-> env.success, Data |-> env.data,
                                   Error |-> env.error]>>]

\* no request sent yet
NoRequest == [url |-> <<>>, authorization |-> <<>>]

\* what the JSONL file holds before the run: one line of an earlier run
FileAtStart ==
  <<MarshalPayload([EventID |-> <<"o">>, Timestamp |-> <<>>, CommonName |-> <<>>])>>

InitRunWith(options, bodies, anyAnswer) ==
  /\ opts \in options
  /\ body \in bodies
  /\ sessionEnv \in
       (IF opts.APIKey = "" THEN {NoSession}
        ELSE IF anyAnswer THEN SessionEnvs(opts.Secret) ELSE RunSessionEnvs(opts.Secret))
  /\ mu = "free"
  /\ finalResults = <<>>
  /\ nodeEvent = <<>>
  /\ nodeCalls = <<>>
  /\ pos = 0
  /\ ctxDone = FALSE
  /\ pc = "start"
  /\ secret = opts.Secret
  /\ streamDuration = 0
  /\ streamRequest = NoRequest
  /\ outFile = "nil"
  /\ file = (IF opts.File # "" THEN FileAtStart ELSE <<>>)
  /\ stdout = <<>>
  /\ connectedOnce = FALSE
  /\ index = 0
  /\ currentIndex = 0
  /\ results = <<>>
  /\ filePayloads = 0
  /\ currentEvent = <<>>
  /\ payload = WebhookPayload
  /\ result = DeliveryResult(0, <<>>)
  /\ posts = <<>>
  /\ err = "unset"
  /\ runErr = "nil"
  /\ events = <<>>
  /\ calls = <<>>

InitRun(options, bodies) == InitRunWith(options, bodies, FALSE)

Init == InitRun(CliOptions, SeqsUpTo(RunLines, MaxLines))

InitParse == InitRun(ParseOptions, SeqsUpTo(ParseLines, MaxParseLines))

\* a secret-mode run with the file and the HTTP sink, with decoration
StreamOptions ==
  {o \in CliOptions : o.URL # "" /\ o.File # "" /\ ~o.Raw /\ o.APIKey = ""}

InitStream == InitRun(StreamOptions, SeqsUpTo(StreamLines, MaxStreamLines))

\* a decorated run with the HTTP sink, in secret mode or in API-key mode
ConnectOptions == {o \in CliOptions : o.URL # "" /\ o.File = "" /\ ~o.Raw}

InitConnect == InitRun(ConnectOptions, SeqsUpTo(ConnectLines, MaxLines))

\* a secret-mode run over short bodies of records
InitLive ==
  InitRun({o \in CliOptions : o.APIKey = ""}, SeqsUpTo({LineDataA, LineEmpty}, MaxLiveLines))

\* an API-key run, whatever becomes of the session request
SessionOptions == {o \in CliOptions : o.APIKey # ""}

InitSession ==
  InitRunWith(SessionOptions, SeqsUpTo({LineDataA}, MaxSessionLines), TRUE)

\* the records a stand-alone DeliverPayload call is given
Payloads == {WebhookPayload, UnmarshalPayload(BodyA).v, UnmarshalPayload(BodyB).v}

\* a stand-alone call DeliverPayload(payload, opts.URL, secret, currentIndex)
InitDeliver ==
  /\ opts \in {o \in CliOptions : o.URL # "" /\ o.File = "" /\ ~o.Raw /\ o.APIKey = ""}
  /\ body = <<>>
  /\ sessionEnv = NoSession
  /\ mu = "free"
  /\ finalResults = <<>>
  /\ nodeEvent = <<>>
  /\ nodeCalls = <<>>
  /\ pos = 0
  /\ ctxDone = FALSE
  /\ pc = "call"
  /\ secret \in {"s1", "srv"}
  /\ streamDuration = 0
  /\ streamRequest = NoRequest
  /\ outFile = "nil"
  /\ file = <<>>
  /\ stdout = <<>>
  /\ connectedOnce = FALSE
  /\ index = 0
  /\ currentIndex \in 1..MaxIndex
  /\ results = <<>>
  /\ filePayloads = 0
  /\ currentEvent = <<>>
  /\ payload \in Payloads
  /\ result = DeliveryResult(0, <<>>)
  /\ posts = <<>>
  /\ err = "unset"
  /\ runErr = "nil"
  /\ events = <<>>
  /\ calls = <<>>

\* ------------------------------------------------------ Run: set-up
\* deferred outFile.Close() on return from Run
Closed(f) == IF f = "open" THEN "closed" ELSE f

\* Run, lines 38-82: resolve the secret and the stream address
ResolveSession ==
  /\ pc = "start"
  /\ IF opts.APIKey # ""
     THEN LET r == CreateSession(sessionEnv, ctxDone)
          IN  IF r.err = "nil"
               THEN /\ secret' = r.sess[1].Data[1].Secret
                    /\ streamDuration' = r.sess[1].Data[1].StreamDurationSeconds
                    /\ stdout' = stdout \o Printed(opts.Raw,
                         <<Out("connecting", 0, <<>>), Out("info", 0, <<>>),
                           Out("banner", 0, <<>>), Out("connecting", 0, <<>>),
                           Out("connected", 0, <<>>)>>)
                    /\ pc' = "openfile"
                    /\ UNCHANGED <<runErr, streamRequest>>
               ELSE /\ stdout' = stdout \o Printed(opts.Raw,
                         <<Out("connecting", 0, <<>>), Out("blank", 0, <<>>)>>)
                    /\ runErr' = "failed to create session"
                    /\ pc' = "done"
                    /\ UNCHANGED sessionVars
     ELSE /\ stdout' = stdout \o Printed(opts.Raw,
               <<Out("banner", 0, <<>>), Out("connecting", 0, <<>>)>>)
          /\ pc' = "openfile"
          /\ UNCHANGED <<sessionVars, runErr>>
  /\ UNCHANGED <<opts, body, sessionEnv, nodeVars, mutexVars, ctxDone, outFile, connectedOnce, err,
                 sinkVars, recordVars, parserVars>>

\* the file opened with its content discarded
OpenFile_truncate ==
  /\ pc = "openfile"
  /\ IF opts.File # ""
     THEN \E ok \in BOOLEAN :
            IF ok
            THEN outFile' = "open" /\ file' = <<>> /\ pc' = "connect" /\ UNCHANGED runErr
            ELSE /\ runErr' = "failed to open output file" /\ pc' = "done"
                 /\ UNCHANGED <<outFile, file>>
     ELSE pc' = "connect" /\ UNCHANGED <<outFile, runErr, file>>
  /\ UNCHANGED <<opts, body, sessionEnv, nodeVars, mutexVars, ctxDone, sessionVars, stdout, connectedOnce, err,
                 filePayloads, posts, recordVars, parserVars>>

\* Run, lines 84-93: open the JSONL file for appending
OpenFile ==
  /\ pc = "openfile"
  /\ IF opts.File # ""
     THEN \E ok \in BOOLEAN :
            IF ok
            THEN outFile' = "open" /\ pc' = "connect" /\ UNCHANGED runErr
            ELSE runErr' = "failed to open output file" /\ pc' = "done" /\ UNCHANGED outFile
     ELSE pc' = "connect" /\ UNCHANGED <<outFile, runErr>>
  /\ UNCHANGED <<opts, body, sessionEnv, nodeVars, mutexVars, ctxDone, sessionVars, stdout, connectedOnce, err,
                 sinkVars, recordVars, parserVars>>

\* ------------------------------------------------------ ConnectStream (stream.go)
\* lines 24-45: the request is built and sent; client.Do fails at once when
\* the context is already cancelled
ConnectOutcomes == {"ok", "request", "connect", "status"}

\* Run, lines 64 and 76: the stream address; ConnectStream, line 29: the
\* bearer credential
StreamRequest ==
  [url |-> IF opts.APIKey # "" THEN sessionEnv.data[1].StreamURL
           ELSE <<"/api/v1/tools/webhook-test/stream?secret=", opts.Secret>>,
   authorization |-> <<"Bearer ", secret>>]

\* ConnectStream reading the body of a response whatever its status
Connect_readAnyway ==
  /\ pc = "connect"
  /\ \E outcome \in ConnectOutcomes :
       /\ outcome \in {"ok", "status"} => ~ctxDone
       /\ IF outcome = "ok"
          THEN pc' = "scan" /\ UNCHANGED err
          ELSE /\ pc' = (IF outcome = "status" THEN "scan" ELSE "finish")
               /\ err' = outcome
       /\ streamRequest' = IF outcome = "request" THEN streamRequest ELSE StreamRequest
  /\ currentEvent' = <<>>
  /\ UNCHANGED <<opts, body, sessionEnv, nodeVars, mutexVars, ctxDone, secret, streamDuration, outFile, stdout, connectedOnce,
                 runErr, sinkVars, recordVars, pos, events, calls>>

Connect ==
  /\ pc = "connect"
  /\ \E outcome \in ConnectOutcomes :
       /\ outcome \in {"ok", "status"} => ~ctxDone
       /\ IF outcome = "ok"
          THEN pc' = "scan" /\ UNCHANGED err
          ELSE pc' = "finish" /\ err' = outcome
       /\ streamRequest' = IF outcome = "request" THEN streamRequest ELSE StreamRequest
  /\ currentEvent' = <<>>
  /\ UNCHANGED <<opts, body, sessionEnv, nodeVars, mutexVars, ctxDone, secret, streamDuration, outFile, stdout, connectedOnce,
                 runErr, sinkVars, recordVars, pos, events, calls>>

\* line 53: scanner.Scan returns the next line
ScanLine ==
  /\ pc = "scan"
  /\ pos < Len(body)
  /\ pos' = pos + 1
  /\ pc' = "check"
  /\ UNCHANGED <<opts, body, sessionEnv, nodeVars, mutexVars, ctxDone, sessionVars, outFile, stdout, connectedOnce,
                 err, runErr, sinkVars, recordVars, currentEvent, events, calls>>

\* lines 53, 88, 98: the body ends, scanner.Err() is nil
ScanEOF ==
  /\ pc = "scan"
  /\ pos = Len(body)
  /\ err' = "nil"
  /\ pc' = "finish"
  /\ UNCHANGED <<opts, body, sessionEnv, nodeVars, mutexVars, ctxDone, sessionVars, outFile, stdout, connectedOnce,
                 runErr, sinkVars, recordVars, parserVars>>

\* line 53: scanner.Scan returns false with an error (the connection drops,
\* a line is longer than the buffer, or the cancelled context aborts the read)
ScanError ==
  /\ pc = "scan"
  /\ pc' = "scanerr"
  /\ UNCHANGED <<opts, body, sessionEnv, nodeVars, mutexVars, ctxDone, sessionVars, outFile, stdout, connectedOnce,
                 err, runErr, sinkVars, recordVars, parserVars>>

\* the scanner error returned as a read error without a look at the context
ReadError_noCtxCheck ==
  /\ pc = "scanerr"
  /\ err' = "read"
  /\ pc' = "finish"
  /\ UNCHANGED <<opts, body, sessionEnv, nodeVars, mutexVars, ctxDone, sessionVars, outFile, stdout, connectedOnce,
                 runErr, sinkVars, recordVars, parserVars>>

\* the scanner error answered by reading on
ReadError_retry ==
  /\ pc = "scanerr"
  /\ err' = err
  /\ pc' = "scan"
  /\ UNCHANGED <<opts, body, sessionEnv, nodeVars, mutexVars, ctxDone, sessionVars, outFile, stdout, connectedOnce,
                 runErr, sinkVars, recordVars, parserVars>>

\* lines 88-96: classify the scanner error
ReadError ==
  /\ pc = "scanerr"
  /\ err' = IF ctxDone THEN "ctx" ELSE "read"
  /\ pc' = "finish"
  /\ UNCHANGED <<opts, body, sessionEnv, nodeVars, mutexVars, ctxDone, sessionVars, outFile, stdout, connectedOnce,
                 runErr, sinkVars, recordVars, parserVars>>

\* lines 55-59: the check between lines sees the cancellation
Cancelled ==
  /\ pc = "check"
  /\ ctxDone
  /\ err' = "ctx"
  /\ pc' = "finish"
  /\ UNCHANGED <<opts, body, sessionEnv, nodeVars, mutexVars, ctxDone, sessionVars, outFile, stdout, connectedOnce,
                 runErr, sinkVars, recordVars, parserVars>>

\* the loop body with a comment line treated as the end of an event block
ParseLine_commentResets(l, cur) ==
  IF HasPrefix(l, <<":">>) THEN [event |-> <<>>, dispatch |-> FALSE, data |-> <<>>]
  ELSE IF l = <<>> THEN [event |-> <<>>, dispatch |-> FALSE, data |-> <<>>]
  ELSE IF HasPrefix(l, EventPrefix)
  THEN [event |-> TrimSpace(TrimPrefix(l, EventPrefix)), dispatch |-> FALSE, data |-> <<>>]
  ELSE IF HasPrefix(l, DataPrefix)
  THEN [event |-> cur, dispatch |-> TRUE, data |-> TrimSpace(TrimPrefix(l, DataPrefix))]
  ELSE [event |-> cur, dispatch |-> FALSE, data |-> <<>>]

\* the loop body without the reset on an empty line
ParseLine_noReset(l, cur) ==
  IF HasPrefix(l, <<":">>) THEN [event |-> cur, dispatch |-> FALSE, data |-> <<>>]
  ELSE IF l = <<>> THEN [event |-> cur, dispatch |-> FALSE, data |-> <<>>]
  ELSE IF HasPrefix(l, EventPrefix)
  THEN [event |-> TrimSpace(TrimPrefix(l, EventPrefix)), dispatch |-> FALSE, data |-> <<>>]
  ELSE IF HasPrefix(l, DataPrefix)
  THEN [event |-> cur, dispatch |-> TRUE, data |-> TrimSpace(TrimPrefix(l, DataPrefix))]
  ELSE [event |-> cur, dispatch |-> FALSE, data |-> <<>>]

\* the loop body clearing the pending kind after each data line
ParseLine_dataClears(l, cur) ==
  IF HasPrefix(l, <<":">>) THEN [event |-> cur, dispatch |-> FALSE, data |-> <<>>]
  ELSE IF l = <<>> THEN [event |-> <<>>, dispatch |-> FALSE, data |-> <<>>]
  ELSE IF HasPrefix(l, EventPrefix)
  THEN [event |-> TrimSpace(TrimPrefix(l, EventPrefix)), dispatch |-> FALSE, data |-> <<>>]
  ELSE IF HasPrefix(l, DataPrefix)
  THEN [event |-> <<>>, dispatch |-> TRUE, data |-> TrimSpace(TrimPrefix(l, DataPrefix))]
  ELSE [event |-> cur, dispatch |-> FALSE, data |-> <<>>]

\* lines 61-85, one pass of the loop body over line l with pending kind cur:
\* the new pending kind, and the data handed to dispatchEvent if any
ParseLine(l, cur) ==
  IF HasPrefix(l, <<":">>) THEN [event |-> cur, dispatch |-> FALSE, data |-> <<>>]
  ELSE IF l = <<>> THEN [event |-> <<>>, dispatch |-> FALSE, data |-> <<>>]
  ELSE IF HasPrefix(l, EventPrefix)
  THEN [event |-> TrimSpace(TrimPrefix(l, EventPrefix)), dispatch |-> FALSE, data |-> <<>>]
  ELSE IF HasPrefix(l, DataPrefix)
  THEN [event |-> cur, dispatch |-> TRUE, data |-> TrimSpace(TrimPrefix(l, DataPrefix))]
  ELSE [event |-> cur, dispatch |-> FALSE, data |-> <<>>]

\* dispatchEvent calling OnPayload whether or not the body decoded
dispatchEvent_ignoreDecodeError(eventType, data) ==
  IF eventType = <<"m", "e", "t", "a">>
  THEN IF UnmarshalMeta(data).ok
       THEN [h |-> "OnMeta", meta |-> UnmarshalMeta(data).v, payload |-> WebhookPayload,
             message |-> <<>>]
       ELSE [h |-> "none", meta |-> StreamMeta, payload |-> WebhookPayload, message |-> <<>>]
  ELSE IF eventType = <<"c", "o", "m", "p", "l", "e", "t", "e">>
  THEN [h |-> "OnComplete", meta |-> StreamMeta, payload |-> WebhookPayload, message |-> data]
  ELSE IF eventType = <<"e", "r", "r", "o", "r">>
  THEN [h |-> "OnError", meta |-> StreamMeta, payload |-> WebhookPayload, message |-> data]
  ELSE [h |-> "OnPayload", meta |-> StreamMeta, payload |-> UnmarshalPayload(data).v,
        message |-> <<>>]

\* dispatchEvent with no case for "complete": the body goes to OnPayload
dispatchEvent_completeAsRecord(eventType, data) ==
  IF eventType = <<"m", "e", "t", "a">>
  THEN IF UnmarshalMeta(data).ok
       THEN [h |-> "OnMeta", meta |-> UnmarshalMeta(data).v, payload |-> WebhookPayload,
             message |-> <<>>]
       ELSE [h |-> "none", meta |-> StreamMeta, payload |-> WebhookPayload, message |-> <<>>]
  ELSE IF eventType = <<"e", "r", "r", "o", "r">>
  THEN [h |-> "OnError", meta |-> StreamMeta, payload |-> WebhookPayload, message |-> data]
  ELSE IF UnmarshalPayload(data).ok
       THEN [h |-> "OnPayload", meta |-> StreamMeta, payload |-> UnmarshalPayload(data).v,
             message |-> <<>>]
       ELSE [h |-> "none", meta |-> StreamMeta, payload |-> WebhookPayload, message |-> <<>>]

\* dispatchEvent, lines 103-132: the callback invoked, "none" when the body
\* does not decode
Call(handler, meta, p, message) ==
  [h |-> handler, meta |-> meta, payload |-> p, message |-> message]

dispatchEvent(eventType, data) ==
  IF eventType = KindMeta
  THEN IF UnmarshalMeta(data).ok
       THEN Call("OnMeta", UnmarshalMeta(data).v, WebhookPayload, <<>>)
       ELSE Call("none", StreamMeta, WebhookPayload, <<>>)
  ELSE IF eventType = KindComplete THEN Call("OnComplete", StreamMeta, WebhookPayload, data)
  ELSE IF eventType = KindError THEN Call("OnError", StreamMeta, WebhookPayload, data)
  ELSE IF UnmarshalPayload(data).ok
       THEN Call("OnPayload", StreamMeta, UnmarshalPayload(data).v, <<>>)
       ELSE Call("none", StreamMeta, WebhookPayload, <<>>)

\* Run, lines 167-192: in secret mode without --raw, OnMeta and OnPayload are
\* wrapped to print "Connected" through connectedOnce
Wrapped == opts.APIKey = "" /\ ~opts.Raw

\* the wrappers printing "Connected" on every meta event and every record
ConnectedOnceDo_always ==
  IF Wrapped THEN <<Out("connected", 0, <<>>)>> ELSE <<>>

ConnectedOnceDo ==
  IF Wrapped /\ ~connectedOnce THEN <<Out("connected", 0, <<>>)>> ELSE <<>>

\* the loop ending the stream when an error event has been dispatched
ProcessLine_stopOnError ==
  /\ pc = "check"
  /\ ~ctxDone
  /\ LET r == ParseLine(body[pos], currentEvent)
         c == dispatchEvent(currentEvent, r.data)
     IN  /\ currentEvent' = r.event
         /\ IF ~r.dispatch
            THEN /\ pc' = "scan"
                 /\ UNCHANGED <<events, calls, streamDuration, stdout, connectedOnce, payload>>
            ELSE /\ events' = Append(events, [kind |-> currentEvent, data |-> r.data])
                 /\ calls' = IF c.h = "none" THEN calls ELSE Append(calls, c)
                 /\ pc' = IF c.h = "OnPayload" THEN "onpayload"
                       ELSE IF c.h = "OnError" THEN "finish" ELSE "scan"
                 /\ payload' = IF c.h = "OnPayload" THEN c.payload ELSE payload
                 /\ streamDuration' =
                      IF c.h = "OnMeta" THEN c.meta.StreamDurationSeconds ELSE streamDuration
                 /\ connectedOnce' = (connectedOnce \/ (Wrapped /\ c.h \in {"OnMeta", "OnPayload"}))
                 /\ stdout' = stdout \o
                      (IF c.h \in {"OnMeta", "OnPayload"} THEN ConnectedOnceDo
                       ELSE IF c.h = "OnComplete" THEN Printed(opts.Raw, <<Out("info", 0, c.message)>>)
                       ELSE <<>>)
  /\ UNCHANGED <<opts, body, sessionEnv, nodeVars, mutexVars, ctxDone, secret, streamRequest, outFile, err, runErr, sinkVars,
                 index, currentIndex, result, results, pos>>

\* the loop body run without the look at the context
ProcessLine_ignoreCancel ==
  /\ pc = "check"
  /\ LET r == ParseLine(body[pos], currentEvent)
         c == dispatchEvent(currentEvent, r.data)
     IN  /\ currentEvent' = r.event
         /\ IF ~r.dispatch
            THEN /\ pc' = "scan"
                 /\ UNCHANGED <<events, calls, streamDuration, stdout, connectedOnce, payload>>
            ELSE /\ events' = Append(events, [kind |-> currentEvent, data |-> r.data])
                 /\ calls' = IF c.h = "none" THEN calls ELSE Append(calls, c)
                 /\ pc' = IF c.h = "OnPayload" THEN "onpayload" ELSE "scan"
                 /\ payload' = IF c.h = "OnPayload" THEN c.payload ELSE payload
                 /\ streamDuration' =
                      IF c.h = "OnMeta" THEN c.meta.StreamDurationSeconds ELSE streamDuration
                 /\ connectedOnce' = (connectedOnce \/ (Wrapped /\ c.h \in {"OnMeta", "OnPayload"}))
                 /\ stdout' = stdout \o
                      (IF c.h \in {"OnMeta", "OnPayload"} THEN ConnectedOnceDo
                       ELSE IF c.h = "OnComplete" THEN Printed(opts.Raw, <<Out("info", 0, c.message)>>)
                       ELSE <<>>)
  /\ UNCHANGED <<opts, body, sessionEnv, nodeVars, mutexVars, ctxDone, secret, streamRequest, outFile, err, runErr, sinkVars,
                 index, currentIndex, result, results, pos>>

\* lines 61-85 with the callbacks of Run (lines 103-106, 154-164): the line
\* is parsed and, for a data line, dispatched; OnMeta, OnComplete and OnError
\* run to their end here, OnPayload starts
ProcessLine ==
  /\ pc = "check"
  /\ ~ctxDone
  /\ \E r \in {ParseLine(body[pos], currentEvent)} :
     \E c \in {dispatchEvent(currentEvent, r.data)} :
         /\ currentEvent' = r.event
         /\ IF ~r.dispatch
            THEN /\ pc' = "scan"
                 /\ UNCHANGED <<events, calls, streamDuration, stdout, connectedOnce, payload>>
            ELSE /\ events' = Append(events, [kind |-> currentEvent, data |-> r.data])
                 /\ calls' = IF c.h = "none" THEN calls ELSE Append(calls, c)
                 /\ pc' = IF c.h = "OnPayload" THEN "onpayload" ELSE "scan"
                 /\ payload' = IF c.h = "OnPayload" THEN c.payload ELSE payload
                 /\ streamDuration' =
                      IF c.h = "OnMeta" THEN c.meta.StreamDurationSeconds ELSE streamDuration
                 /\ connectedOnce' = (connectedOnce \/ (Wrapped /\ c.h \in {"OnMeta", "OnPayload"}))
                 /\ stdout' = stdout \o
                      (IF c.h \in {"OnMeta", "OnPayload"} THEN ConnectedOnceDo
                       ELSE IF c.h = "OnComplete" THEN Printed(opts.Raw, <<Out("info", 0, c.message)>>)
                       ELSE <<>>)
  /\ UNCHANGED <<opts, body, sessionEnv, nodeVars, mutexVars, ctxDone, secret, streamRequest, outFile, err, runErr, sinkVars,
                 index, currentIndex, result, results, pos>>

\* ------------------------------------------------------ Run: the OnPayload callback
\* the callback reading the counter before the increment
AssignIndex_stale ==
  /\ pc = "onpayload"
  /\ index' = index + 1
  /\ currentIndex' = index
  /\ pc' = "raw"
  /\ UNCHANGED <<opts, body, sessionEnv, nodeVars, mutexVars, ctxDone, sessionVars, outFile, stdout, connectedOnce,
                 err, runErr, sinkVars, payload, result, results, parserVars>>

\* lines 109-112: under the mutex, take the next sequence index
AssignIndex ==
  /\ pc = "onpayload"
  /\ index' = index + 1
  /\ currentIndex' = index + 1
  /\ pc' = "raw"
  /\ UNCHANGED <<opts, body, sessionEnv, nodeVars, mutexVars, ctxDone, sessionVars, outFile, stdout, connectedOnce,
                 err, runErr, sinkVars, payload, result, results, parserVars>>

\* the callback appending to the file where the raw echo belongs
RawSink_afterFile ==
  /\ pc = "raw"
  /\ IF outFile # "nil"
     THEN /\ file' = Append(file, MarshalPayload(payload))
          /\ filePayloads' = filePayloads + 1
     ELSE UNCHANGED <<file, filePayloads>>
  /\ pc' = "file"
  /\ UNCHANGED <<opts, body, sessionEnv, nodeVars, mutexVars, ctxDone, sessionVars, outFile, stdout, connectedOnce,
                 err, runErr, posts, recordVars, parserVars>>

\* lines 114-120: --raw, one NDJSON line to stdout
RawSink ==
  /\ pc = "raw"
  /\ stdout' = IF opts.Raw
               THEN Append(stdout, Out("record", 0, MarshalPayload(payload)))
               ELSE stdout
  /\ pc' = "file"
  /\ UNCHANGED <<opts, body, sessionEnv, nodeVars, mutexVars, ctxDone, sessionVars, outFile, connectedOnce,
                 err, runErr, sinkVars, recordVars, parserVars>>

\* the callback giving the record up when the append fails
FileSink_abortOnError ==
  /\ pc = "file"
  /\ IF outFile # "nil"
     THEN \E written \in BOOLEAN :
            /\ file' = IF written THEN Append(file, MarshalPayload(payload)) ELSE file
            /\ filePayloads' = IF written THEN filePayloads + 1 ELSE filePayloads
            /\ pc' = IF written THEN "deliver" ELSE "scan"
     ELSE pc' = "deliver" /\ UNCHANGED <<file, filePayloads>>
  /\ UNCHANGED <<opts, body, sessionEnv, nodeVars, mutexVars, ctxDone, sessionVars, outFile, stdout, connectedOnce,
                 err, runErr, posts, recordVars, parserVars>>


\* lines 122-131: --file, one JSONL line appended; the result of the write is
\* discarded and filePayloads counts the attempt
FileSink ==
  /\ pc = "file"
  /\ IF outFile # "nil"
     THEN \E written \in BOOLEAN :
            /\ file' = IF written THEN Append(file, MarshalPayload(payload)) ELSE file
            /\ filePayloads' = filePayloads + 1
     ELSE UNCHANGED <<file, filePayloads>>
  /\ pc' = "deliver"
  /\ UNCHANGED <<opts, body, sessionEnv, nodeVars, mutexVars, ctxDone, sessionVars, outFile, stdout, connectedOnce,
                 err, runErr, posts, recordVars, parserVars>>

\* the callback returning once the request is sent, the outcome left behind
Deliver_noWait ==
  /\ pc = "deliver"
  /\ IF opts.URL # ""
     THEN \E env \in RunDeliveryEnvs :
            /\ result' = DeliverPayload(payload, opts.URL, secret, currentIndex, env)
            /\ posts' = IF env.kind \in {"transport", "response"}
                        THEN Append(posts, DeliveryRequest(payload, opts.URL, secret))
                        ELSE posts
            /\ stdout' = stdout \o Printed(opts.Raw,
                 <<Out("delivery", currentIndex, <<>>)>>
                   \o (IF opts.Verbose THEN <<Out("verbose", 0, <<>>)>> ELSE <<>>))
            /\ pc' = "scan"
     ELSE /\ stdout' = stdout \o
               (IF outFile # "nil" /\ ~opts.Raw
                THEN <<Out("saved", currentIndex, payload.CommonName)>> ELSE <<>>)
          /\ pc' = "scan"
          /\ UNCHANGED <<result, posts>>
  /\ UNCHANGED <<opts, body, sessionEnv, nodeVars, mutexVars, ctxDone, sessionVars, outFile, connectedOnce, err, runErr,
                 file, filePayloads, index, currentIndex, payload, results, parserVars>>

\* the callback sending the request a second time after a transport failure
Deliver_retry ==
  /\ pc = "deliver"
  /\ IF opts.URL # ""
     THEN \E env \in RunDeliveryEnvs :
            /\ result' = DeliverPayload(payload, opts.URL, secret, currentIndex, env)
            /\ posts' = IF env.kind = "transport"
                        THEN posts \o <<DeliveryRequest(payload, opts.URL, secret),
                                        DeliveryRequest(payload, opts.URL, secret)>>
                        ELSE IF env.kind = "response"
                        THEN Append(posts, DeliveryRequest(payload, opts.URL, secret))
                        ELSE posts
            /\ stdout' = stdout \o Printed(opts.Raw,
                 <<Out("delivery", currentIndex, <<>>)>>
                   \o (IF opts.Verbose THEN <<Out("verbose", 0, <<>>)>> ELSE <<>>))
            /\ pc' = "append"
     ELSE /\ stdout' = stdout \o
               (IF outFile # "nil" /\ ~opts.Raw
                THEN <<Out("saved", currentIndex, payload.CommonName)>> ELSE <<>>)
          /\ pc' = "scan"
          /\ UNCHANGED <<result, posts>>
  /\ UNCHANGED <<opts, body, sessionEnv, nodeVars, mutexVars, ctxDone, sessionVars, outFile, connectedOnce, err, runErr,
                 file, filePayloads, index, currentIndex, payload, results, parserVars>>

\* the callback signing with the --secret flag instead of the resolved secret
Deliver_flagSecret ==
  /\ pc = "deliver"
  /\ IF opts.URL # ""
     THEN \E env \in RunDeliveryEnvs :
            /\ result' = DeliverPayload(payload, opts.URL, opts.Secret, currentIndex, env)
            /\ posts' = IF env.kind \in {"transport", "response"}
                        THEN Append(posts, DeliveryRequest(payload, opts.URL, opts.Secret))
                        ELSE posts
            /\ stdout' = stdout \o Printed(opts.Raw,
                 <<Out("delivery", currentIndex, <<>>)>>
                   \o (IF opts.Verbose THEN <<Out("verbose", 0, <<>>)>> ELSE <<>>))
            /\ pc' = "append"
     ELSE /\ stdout' = stdout \o
               (IF outFile # "nil" /\ ~opts.Raw
                THEN <<Out("saved", currentIndex, payload.CommonName)>> ELSE <<>>)
          /\ pc' = "scan"
          /\ UNCHANGED <<result, posts>>
  /\ UNCHANGED <<opts, body, sessionEnv, nodeVars, mutexVars, ctxDone, sessionVars, outFile, connectedOnce, err, runErr,
                 file, filePayloads, index, currentIndex, payload, results, parserVars>>

\* lines 133-143 and 148-151: --url, DeliverPayload and its output; without
\* --url the file-only progress line
Deliver ==
  /\ pc = "deliver"
  /\ IF opts.URL # ""
     THEN \E env \in RunDeliveryEnvs :
            /\ result' = DeliverPayload(payload, opts.URL, secret, currentIndex, env)
            /\ posts' = IF env.kind \in {"transport", "response"}
                        THEN Append(posts, DeliveryRequest(payload, opts.URL, secret))
                        ELSE posts
            /\ stdout' = stdout \o Printed(opts.Raw,
                 <<Out("delivery", currentIndex, <<>>)>>
                   \o (IF opts.Verbose THEN <<Out("verbose", 0, <<>>)>> ELSE <<>>))
            /\ pc' = "append"
     ELSE /\ stdout' = stdout \o
               (IF outFile # "nil" /\ ~opts.Raw
                THEN <<Out("saved", currentIndex, payload.CommonName)>> ELSE <<>>)
          /\ pc' = "scan"
          /\ UNCHANGED <<result, posts>>
  /\ UNCHANGED <<opts, body, sessionEnv, nodeVars, mutexVars, ctxDone, sessionVars, outFile, connectedOnce, err, runErr,
                 file, filePayloads, index, currentIndex, payload, results, parserVars>>

\* the callback keeping only the outcomes of successful deliveries
AppendResult_skipFailed ==
  /\ pc = "append"
  /\ results' = IF result.Success THEN Append(results, result) ELSE results
  /\ pc' = "scan"
  /\ UNCHANGED <<opts, body, sessionEnv, nodeVars, mutexVars, ctxDone, sessionVars, outFile, stdout, connectedOnce,
                 err, runErr, sinkVars, index, currentIndex, payload, result, parserVars>>

\* lines 145-147: under the mutex, append the outcome
AppendResult ==
  /\ pc = "append"
  /\ results' = Append(results, result)
  /\ pc' = "scan"
  /\ UNCHANGED <<opts, body, sessionEnv, nodeVars, mutexVars, ctxDone, sessionVars, outFile, stdout, connectedOnce,
                 err, runErr, sinkVars, index, currentIndex, payload, result, parserVars>>

\* ------------------------------------------------------ Run: the end
hasOutput == Len(results) > 0 \/ filePayloads > 0

Succeeded(rs) == Cardinality({i \in 1..Len(rs) : rs[i].Success})

\* PrintSummary, lines 131-136: the loop adding up the latencies
RECURSIVE TotalLatency(_)
TotalLatency(rs) ==
  IF rs = <<>> THEN 0 ELSE Head(rs).LatencyMs + TotalLatency(Tail(rs))

\* fmt's %.1f of succeeded/total*100, in tenths of a percent
PctTenths(succeeded, total) == (2000 * succeeded + total) \div (2 * total)

\* PrintSummary with the average taken over the deliveries that succeeded
PrintSummary_avgOfSucceeded(rs) ==
  LET total == Len(rs)
      succeeded == Succeeded(rs)
  IN  [total |-> total, succeeded |-> succeeded, failed |-> total - succeeded,
       avgMs |-> IF succeeded > 0 THEN TotalLatency(rs) \div succeeded ELSE 0,
       pct |-> IF total > 0 THEN PctTenths(succeeded, total) ELSE 0]

\* PrintSummary, lines 127-150: the figures of the summary
PrintSummary(rs) ==
  LET total == Len(rs)
      succeeded == Succeeded(rs)
  IN  [total |-> total, succeeded |-> succeeded, failed |-> total - succeeded,
       avgMs |-> IF total > 0 THEN TotalLatency(rs) \div total ELSE 0,
       pct |-> IF total > 0 THEN PctTenths(succeeded, total) ELSE 0]

\* the end of Run with the interrupted run reported as a stream error
Finish_cancelAsError ==
  /\ pc = "finish"
  /\ finalResults' = results
  /\ stdout' = stdout
       \o (IF opts.File # "" THEN Printed(opts.Raw, <<Out("info", filePayloads, <<>>)>>) ELSE <<>>)
       \o (IF opts.URL # ""
           THEN Printed(opts.Raw, <<Out("summary", Succeeded(results), PrintSummary(results))>>) ELSE <<>>)
       \o (IF err # "nil" /\ ctxDone /\ hasOutput
           THEN Printed(opts.Raw, <<Out("info", 0, <<>>)>>) ELSE <<>>)
  /\ IF err # "nil" /\ ctxDone /\ hasOutput
     THEN /\ runErr' = "stream error"
          /\ outFile' = Closed(outFile)
          /\ pc' = "done"
     ELSE /\ pc' = "finish2"
          /\ UNCHANGED <<runErr, outFile>>
  /\ UNCHANGED <<opts, body, sessionEnv, nodeVars, mu, ctxDone, sessionVars, connectedOnce, err,
                 sinkVars, recordVars, parserVars>>

\* the return on cancellation taken without the deferred Close
Finish_leaveOpen ==
  /\ pc = "finish"
  /\ finalResults' = results
  /\ stdout' = stdout
       \o (IF opts.File # "" THEN Printed(opts.Raw, <<Out("info", filePayloads, <<>>)>>) ELSE <<>>)
       \o (IF opts.URL # ""
           THEN Printed(opts.Raw, <<Out("summary", Succeeded(results), PrintSummary(results))>>) ELSE <<>>)
       \o (IF err # "nil" /\ ctxDone /\ hasOutput
           THEN Printed(opts.Raw, <<Out("info", 0, <<>>)>>) ELSE <<>>)
  /\ IF err # "nil" /\ ctxDone /\ hasOutput
     THEN /\ runErr' = checkForFailures(results)
          /\ outFile' = outFile
          /\ pc' = "done"
     ELSE /\ pc' = "finish2"
          /\ UNCHANGED <<runErr, outFile>>
  /\ UNCHANGED <<opts, body, sessionEnv, nodeVars, mu, ctxDone, sessionVars, connectedOnce, err,
                 sinkVars, recordVars, parserVars>>

\* lines 196-222: snapshot, the two summaries, and the return taken when
\* the context is cancelled and there is output
Finish ==
  /\ pc = "finish"
  /\ finalResults' = results
  /\ stdout' = stdout
       \o (IF opts.File # "" THEN Printed(opts.Raw, <<Out("info", filePayloads, <<>>)>>) ELSE <<>>)
       \o (IF opts.URL # ""
           THEN Printed(opts.Raw, <<Out("summary", Succeeded(results), PrintSummary(results))>>) ELSE <<>>)
       \o (IF err # "nil" /\ ctxDone /\ hasOutput
           THEN Printed(opts.Raw, <<Out("info", 0, <<>>)>>) ELSE <<>>)
  /\ IF err # "nil" /\ ctxDone /\ hasOutput
     THEN /\ runErr' = checkForFailures(results)
          /\ outFile' = Closed(outFile)
          /\ pc' = "done"
     ELSE /\ pc' = "finish2"
          /\ UNCHANGED <<runErr, outFile>>
  /\ UNCHANGED <<opts, body, sessionEnv, nodeVars, mu, ctxDone, sessionVars, connectedOnce, err,
                 sinkVars, recordVars, parserVars>>

\* the last return with every ConnectStream error reported, cancelled or not
Return_anyErr ==
  /\ pc = "finish2"
  /\ runErr' = IF err # "nil" THEN "stream error" ELSE checkForFailures(results)
  /\ outFile' = Closed(outFile)
  /\ pc' = "done"
  /\ UNCHANGED <<opts, body, sessionEnv, nodeVars, mutexVars, ctxDone, sessionVars, stdout, connectedOnce, err,
                 sinkVars, recordVars, parserVars>>

\* the last return looking at the deliveries only
Return_deliveriesOnly ==
  /\ pc = "finish2"
  /\ runErr' = checkForFailures(results)
  /\ outFile' = Closed(outFile)
  /\ pc' = "done"
  /\ UNCHANGED <<opts, body, sessionEnv, nodeVars, mutexVars, ctxDone, sessionVars, stdout, connectedOnce, err,
                 sinkVars, recordVars, parserVars>>

\* lines 224-228: a stream error when the context is not cancelled, else the
\* verdict on the deliveries
Return ==
  /\ pc = "finish2"
  /\ runErr' = IF err # "nil" /\ ~ctxDone THEN "stream error" ELSE checkForFailures(results)
  /\ outFile' = Closed(outFile)
  /\ pc' = "done"
  /\ UNCHANGED <<opts, body, sessionEnv, nodeVars, mutexVars, ctxDone, sessionVars, stdout, connectedOnce, err,
                 sinkVars, recordVars, parserVars>>

\* SIGINT or SIGTERM cancels the context made by signal.NotifyContext (line 44)
Signal ==
  /\ pc # "done"
  /\ ~ctxDone
  /\ ctxDone' = TRUE
  /\ UNCHANGED <<opts, body, sessionEnv, nodeVars, mutexVars, pc, sessionVars, outFile, stdout, connectedOnce, err, runErr,
                 sinkVars, recordVars, parserVars>>

\* main, lines 90-93: the process exit status
ExitCode == IF runErr = "nil" THEN 0 ELSE 1

Next ==
  \/ ResolveSession
  \/ OpenFile
  \/ Connect
  \/ ScanLine
  \/ ScanEOF
  \/ ScanError
  \/ ReadError
  \/ Cancelled
  \/ ProcessLine
  \/ AssignIndex
  \/ RawSink
  \/ FileSink
  \/ Deliver
  \/ AppendResult
  \/ Finish
  \/ Return
  \/ Signal

Spec == Init /\ [][Next]_vars

\* Run with both sinks over every short body of records and events
SpecStream == InitStream /\ [][Next]_vars

\* Run in both session modes over bodies that open with meta or a record
SpecConnect == InitConnect /\ [][Next]_vars

\* What the code's blocking calls guarantee.  The stream request carries the
\* signal context (stream.go 24), so a read of the body returns once the
\* context is cancelled; without a signal it may block for ever.  The
\* delivery client has a 10 s timeout (sender.go 14, 53), so DeliverPayload
\* returns.  Every other step is straight-line code.  RunStep is a step of
\* Run that does not wait on the server for ever.
RunStep ==
  \/ ctxDone /\ (ScanLine \/ ScanEOF \/ ScanError)
  \/ ReadError \/ Cancelled \/ ProcessLine
  \/ AssignIndex \/ RawSink \/ FileSink \/ Deliver \/ AppendResult
  \/ Finish \/ Return

\* Run is one thread: a step that can be taken is taken
Fairness == WF_vars(RunStep)

\* Run with its blocking calls returning as the code guarantees
SpecLive == InitLive /\ [][Next]_vars /\ Fairness

\* Run in API-key mode over everything the session API may answer
SpecSession == InitSession /\ [][Next]_vars

\* ConnectStream driven over every short body, no signal
NextParse ==
  \/ ResolveSession
  \/ OpenFile
  \/ Connect
  \/ ScanLine
  \/ ScanEOF
  \/ ScanError
  \/ ReadError
  \/ ProcessLine
  \/ AssignIndex
  \/ RawSink
  \/ FileSink
  \/ Deliver
  \/ Finish
  \/ Return

SpecParse == InitParse /\ [][NextParse]_vars

\* DeliverPayload called on its own, with every outcome of the outside world
DeliverCall ==
  /\ pc = "call"
  /\ \E env \in DeliveryEnvs :
       /\ result' = DeliverPayload(payload, opts.URL, secret, currentIndex, env)
       /\ posts' = IF env.kind \in {"transport", "response"}
                   THEN Append(posts, DeliveryRequest(payload, opts.URL, secret))
                   ELSE posts
  /\ pc' = "returned"
  /\ UNCHANGED <<opts, body, sessionEnv, nodeVars, mutexVars, ctxDone, sessionVars, outFile, stdout, connectedOnce, err, runErr,
                 file, filePayloads, index, currentIndex, payload, results, parserVars>>

NextDeliver == DeliverCall

SpecDeliver == InitDeliver /\ [][NextDeliver]_vars

\* the strings and the secrets a stand-alone SignPayload call is given
SignBodies == SeqsUpTo({"a", "b"}, MaxSignLen)

SignSecrets == {"", "s1", "srv"}

\* two stand-alone calls SignPayload(body[1], secret)
InitSign ==
  /\ opts \in {o \in CliOptions : o.URL # "" /\ o.File = "" /\ ~o.Raw /\ o.APIKey = ""}
  /\ body \in {<<b>> : b \in SignBodies}
  /\ sessionEnv = NoSession
  /\ mu = "free"
  /\ finalResults = <<>>
  /\ nodeEvent = <<>>
  /\ nodeCalls = <<>>
  /\ pos = 0
  /\ ctxDone = FALSE
  /\ pc = "sign"
  /\ secret \in SignSecrets
  /\ streamDuration = 0
  /\ streamRequest = NoRequest
  /\ outFile = "nil"
  /\ file = <<>>
  /\ stdout = <<>>
  /\ connectedOnce = FALSE
  /\ index = 0
  /\ currentIndex = 0
  /\ results = <<>>
  /\ filePayloads = 0
  /\ currentEvent = <<>>
  /\ payload = WebhookPayload
  /\ result = DeliveryResult(0, <<>>)
  /\ posts = <<>>
  /\ err = "unset"
  /\ runErr = "nil"
  /\ events = <<>>
  /\ calls = <<>>

\* one call, its result written out
SignCall ==
  /\ pc \in {"sign", "sign2"}
  /\ stdout' = Append(stdout, Out("digest", 0, SignPayloadHex(body[1], secret)))
  /\ pc' = IF pc = "sign" THEN "sign2" ELSE "signed"
  /\ UNCHANGED <<opts, body, sessionEnv, nodeVars, mutexVars, ctxDone, sessionVars, outFile, connectedOnce, err, runErr,
                 sinkVars, recordVars, parserVars>>

NextSign == SignCall

\* SignPayload called twice on every short string under every secret
SpecSign == InitSign /\ [][NextSign]_vars

\* the outcome collections a stand-alone PrintSummary call is given
SummaryResults ==
  {[k \in 1..Len(sh) |->
      [DeliveryResult(k, <<>>) EXCEPT !.LatencyMs = sh[k].latency,
                                      !.Success = sh[k].ok,
                                      !.Status = IF sh[k].ok THEN 200 ELSE 0,
                                      !.Error = IF sh[k].ok THEN "" ELSE "delivery failed"]] :
     sh \in SeqsUpTo([latency : {10, 20, 30}, ok : BOOLEAN], MaxOutcomes)}

\* a stand-alone call PrintSummary(finalResults, elapsedMs)
InitSummary ==
  /\ opts \in {o \in CliOptions : o.URL # "" /\ o.File = "" /\ ~o.Raw /\ o.APIKey = ""}
  /\ body = <<>>
  /\ sessionEnv = NoSession
  /\ mu = "free"
  /\ finalResults = <<>>
  /\ nodeEvent = <<>>
  /\ nodeCalls = <<>>
  /\ pos = 0
  /\ ctxDone = FALSE
  /\ pc = "summary"
  /\ secret = opts.Secret
  /\ streamDuration = 0
  /\ streamRequest = NoRequest
  /\ outFile = "nil"
  /\ file = <<>>
  /\ stdout = <<>>
  /\ connectedOnce = FALSE
  /\ results \in SummaryResults
  /\ index = Len(results)
  /\ currentIndex = Len(results)
  /\ filePayloads = 0
  /\ currentEvent = <<>>
  /\ payload = WebhookPayload
  /\ result = DeliveryResult(0, <<>>)
  /\ posts = <<>>
  /\ err = "nil"
  /\ runErr = "nil"
  /\ events = <<>>
  /\ calls = <<>>

SummaryCall ==
  /\ pc = "summary"
  /\ stdout' = Append(stdout, Out("summary", Succeeded(results), PrintSummary(results)))
  /\ pc' = "printed"
  /\ UNCHANGED <<opts, body, sessionEnv, nodeVars, mutexVars, ctxDone, sessionVars, outFile, connectedOnce, err, runErr,
                 sinkVars, recordVars, parserVars>>

NextSummary == SummaryCall

\* PrintSummary called on its own, with every short outcome collection
SpecSummary == InitSummary /\ [][NextSummary]_vars

\* ------------------------------------------------------ Run: the mutex
\* The OnPayload callback and the end of Run, statement by statement, with
\* every mu.Lock and mu.Unlock a step of its own (part_001 108-152, 196-202).

\* Run at line 194, the stream open
InitMutex ==
  /\ opts \in {o \in CliOptions : o.APIKey = ""}
  /\ body = <<>>
  /\ sessionEnv = NoSession
  /\ mu = "free"
  /\ finalResults = <<>>
  /\ nodeEvent = <<>>
  /\ nodeCalls = <<>>
  /\ pos = 0
  /\ ctxDone = FALSE
  /\ pc = "stream"
  /\ secret = opts.Secret
  /\ streamDuration = 0
  /\ streamRequest = StreamRequest
  /\ outFile = IF opts.File # "" THEN "open" ELSE "nil"
  /\ file = <<>>
  /\ stdout = <<>>
  /\ connectedOnce = FALSE
  /\ results = <<>>
  /\ index = 0
  /\ currentIndex = 0
  /\ filePayloads = 0
  /\ currentEvent = <<>>
  /\ payload = WebhookPayload
  /\ result = DeliveryResult(0, <<>>)
  /\ posts = <<>>
  /\ err = "unset"
  /\ runErr = "nil"
  /\ events = <<>>
  /\ calls = <<>>

\* the statement each mu.Lock() is followed by
AfterLock ==
  [lock_index |-> "index", lock_file |-> "file", lock_results |-> "results",
   lock_snapshot |-> "snapshot"]

\* the statement each mu.Unlock() is followed by
AfterUnlock ==
  [unlock_index |-> "raw", unlock_file |-> "url", unlock_results |-> "stream",
   unlock_snapshot |-> "aggregate"]

\* stream.go 117-122: dispatchEvent calls OnPayload
OnPayload ==
  /\ pc = "stream"
  /\ index < MaxMutexRecords
  /\ payload' = WebhookPayload
  /\ pc' = "lock_index"
  /\ UNCHANGED <<opts, body, sessionEnv, nodeVars, mutexVars, ctxDone, sessionVars, outFile, stdout,
                 connectedOnce, err, runErr, sinkVars, index, currentIndex, result, results,
                 parserVars>>

\* lines 109, 126, 145, 198: mu.Lock()
Lock ==
  /\ pc \in DOMAIN AfterLock
  /\ mu = "free"
  /\ mu' = "held"
  /\ pc' = AfterLock[pc]
  /\ UNCHANGED <<opts, body, sessionEnv, nodeVars, finalResults, ctxDone, sessionVars, outFile, stdout,
                 connectedOnce, err, runErr, sinkVars, recordVars, parserVars>>

\* mu.Unlock() leaving the mutex held
Unlock_keep ==
  /\ pc \in DOMAIN AfterUnlock
  /\ pc' = AfterUnlock[pc]
  /\ UNCHANGED <<opts, body, sessionEnv, nodeVars, mutexVars, ctxDone, sessionVars, outFile, stdout,
                 connectedOnce, err, runErr, sinkVars, recordVars, parserVars>>

\* lines 112, 129, 147, 202: mu.Unlock()
Unlock ==
  /\ pc \in DOMAIN AfterUnlock
  /\ mu' = "free"
  /\ pc' = AfterUnlock[pc]
  /\ UNCHANGED <<opts, body, sessionEnv, nodeVars, finalResults, ctxDone, sessionVars, outFile, stdout,
                 connectedOnce, err, runErr, sinkVars, recordVars, parserVars>>

\* lines 110-111: index++; currentIndex := index
IndexIncrement ==
  /\ pc = "index"
  /\ index' = index + 1
  /\ currentIndex' = index + 1
  /\ pc' = "unlock_index"
  /\ UNCHANGED <<opts, body, sessionEnv, nodeVars, mutexVars, ctxDone, sessionVars, outFile, stdout,
                 connectedOnce, err, runErr, sinkVars, payload, result, results, parserVars>>

\* lines 114-125: the --raw line, then the test of outFile
RawWrite ==
  /\ pc = "raw"
  /\ stdout' = IF opts.Raw
               THEN Append(stdout, Out("record", 0, MarshalPayload(payload)))
               ELSE stdout
  /\ pc' = IF outFile # "nil" THEN "lock_file" ELSE "url"
  /\ UNCHANGED <<opts, body, sessionEnv, nodeVars, mutexVars, ctxDone, sessionVars, outFile,
                 connectedOnce, err, runErr, sinkVars, recordVars, parserVars>>

\* lines 127-128: the JSONL line and filePayloads++
FileWrite ==
  /\ pc = "file"
  /\ \E written \in BOOLEAN :
       file' = IF written THEN Append(file, MarshalPayload(payload)) ELSE file
  /\ filePayloads' = filePayloads + 1
  /\ pc' = "unlock_file"
  /\ UNCHANGED <<opts, body, sessionEnv, nodeVars, mutexVars, ctxDone, sessionVars, outFile, stdout,
                 connectedOnce, err, runErr, posts, recordVars, parserVars>>

\* lines 134-135 and 148-151: DeliverPayload is entered, or the file-only
\* progress line is printed and the callback returns
DeliverEnter ==
  /\ pc = "url"
  /\ IF opts.URL # ""
     THEN pc' = "delivering" /\ UNCHANGED stdout
     ELSE /\ stdout' = stdout \o
               (IF outFile # "nil" /\ ~opts.Raw
                THEN <<Out("saved", currentIndex, payload.CommonName)>> ELSE <<>>)
          /\ pc' = "stream"
  /\ UNCHANGED <<opts, body, sessionEnv, nodeVars, mutexVars, ctxDone, sessionVars, outFile,
                 connectedOnce, err, runErr, sinkVars, recordVars, parserVars>>

\* lines 135-143: DeliverPayload returns, its outcome is printed
DeliverReturn ==
  /\ pc = "delivering"
  /\ \E env \in RunDeliveryEnvs :
       /\ result' = DeliverPayload(payload, opts.URL, secret, currentIndex, env)
       /\ posts' = IF env.kind \in {"transport", "response"}
                   THEN Append(posts, DeliveryRequest(payload, opts.URL, secret))
                   ELSE posts
  /\ stdout' = stdout \o Printed(opts.Raw, <<Out("delivery", currentIndex, <<>>)>>)
  /\ pc' = "lock_results"
  /\ UNCHANGED <<opts, body, sessionEnv, nodeVars, mutexVars, ctxDone, sessionVars, outFile,
                 connectedOnce, err, runErr, file, filePayloads, index, currentIndex, payload,
                 results, parserVars>>

\* line 146: results = append(results, result)
ResultsAppend ==
  /\ pc = "results"
  /\ results' = Append(results, result)
  /\ pc' = "unlock_results"
  /\ UNCHANGED <<opts, body, sessionEnv, nodeVars, mutexVars, ctxDone, sessionVars, outFile, stdout,
                 connectedOnce, err, runErr, sinkVars, index, currentIndex, payload, result,
                 parserVars>>

\* line 194: ConnectStream returns
StreamReturn ==
  /\ pc = "stream"
  /\ err' = "nil"
  /\ pc' = "lock_snapshot"
  /\ UNCHANGED <<opts, body, sessionEnv, nodeVars, mutexVars, ctxDone, sessionVars, outFile, stdout,
                 connectedOnce, runErr, sinkVars, recordVars, parserVars>>

\* lines 199-201: the copy of results
Snapshot ==
  /\ pc = "snapshot"
  /\ finalResults' = results
  /\ pc' = "unlock_snapshot"
  /\ UNCHANGED <<opts, body, sessionEnv, nodeVars, mu, ctxDone, sessionVars, outFile, stdout,
                 connectedOnce, err, runErr, sinkVars, recordVars, parserVars>>

\* lines 204-229: the summary and the verdict, from the copy
Aggregate ==
  /\ pc = "aggregate"
  /\ stdout' = stdout \o
       (IF opts.URL # ""
        THEN Printed(opts.Raw, <<Out("summary", Succeeded(finalResults), PrintSummary(finalResults))>>)
        ELSE <<>>)
  /\ runErr' = checkForFailures(finalResults)
  /\ outFile' = Closed(outFile)
  /\ pc' = "done"
  /\ UNCHANGED <<opts, body, sessionEnv, nodeVars, mutexVars, ctxDone, sessionVars, connectedOnce, err,
                 sinkVars, recordVars, parserVars>>

NextMutex ==
  \/ OnPayload
  \/ Lock
  \/ Unlock
  \/ IndexIncrement
  \/ RawWrite
  \/ FileWrite
  \/ DeliverEnter
  \/ DeliverReturn
  \/ ResultsAppend
  \/ StreamReturn
  \/ Snapshot
  \/ Aggregate

\* the callback and the end of Run, one statement at a time
SpecMutex == InitMutex /\ [][NextMutex]_vars

\* ------------------------------------------------------ Node: run
\* part_005 10-58: the DeliveryResult deliverPayload resolves to; fetch
\* either throws (transport error, or the 10 s timeout) or answers
deliverPayload(p, targetUrl, key, idx, env) ==
  LET commonName == IF p.CommonName # <<>> THEN p.CommonName ELSE <<"(empty)">>
  IN  IF env.kind = "response"
      THEN [index |-> idx, commonName |-> commonName, status |-> env.status,
            statusText |-> StatusText(env.status), latencyMs |-> env.latency,
            success |-> (env.status >= 200 /\ env.status < 300), error |-> ""]
      ELSE [index |-> idx, commonName |-> commonName, status |-> 0,
            statusText |-> "Error", latencyMs |-> env.latency,
            success |-> FALSE, error |-> "fetch failed"]

\* run at part_004 235, about to call connectStream
InitNode ==
  /\ opts \in {o \in CliOptions : o.APIKey = ""}
  /\ body = <<>>
  /\ sessionEnv = NoSession
  /\ mu = "free"
  /\ finalResults = <<>>
  /\ nodeEvent = <<>>
  /\ nodeCalls = <<>>
  /\ pos = 0
  /\ ctxDone = FALSE
  /\ pc = "node_read"
  /\ secret = opts.Secret
  /\ streamDuration = 0
  /\ streamRequest = StreamRequest
  /\ outFile = IF opts.File # "" THEN "open" ELSE "nil"
  /\ file = <<>>
  /\ stdout = <<>>
  /\ connectedOnce = FALSE
  /\ results = <<>>
  /\ index = 0
  /\ currentIndex = 0
  /\ filePayloads = 0
  /\ currentEvent = <<>>
  /\ payload = WebhookPayload
  /\ result = DeliveryResult(0, <<>>)
  /\ posts = <<>>
  /\ err = "unset"
  /\ runErr = "nil"
  /\ events = <<>>
  /\ calls = <<>>

\* the deliverPayload promises not yet settled: one is created by every
\* onPayload call with opts.url set, and results.push follows its settling
InFlight ==
  {i \in 1..index : opts.URL # "" /\ ~\E j \in 1..Len(results) : results[j].index = i}

\* types.ts 142 and part_004 244-258: connectStream calls onPayload and does
\* not await the promise it returns; onPayload runs up to its await, that
\* is through deliveryIndex++, the two writes and the fetch of deliverPayload
onPayload ==
  /\ pc = "node_read"
  /\ index < MaxNodeRecords
  /\ payload' = WebhookPayload
  /\ index' = index + 1
  /\ currentIndex' = index + 1
  /\ stdout' = stdout
       \o (IF opts.Raw THEN <<Out("record", 0, MarshalPayload(WebhookPayload))>> ELSE <<>>)
       \o (IF opts.URL = "" /\ outFile # "nil" /\ ~opts.Raw
           THEN <<Out("saved", index + 1, WebhookPayload.CommonName)>> ELSE <<>>)
  /\ IF outFile # "nil"
     THEN file' = Append(file, MarshalPayload(WebhookPayload)) /\ filePayloads' = filePayloads + 1
     ELSE UNCHANGED <<file, filePayloads>>
  /\ posts' = IF opts.URL # ""
              THEN Append(posts, DeliveryRequest(WebhookPayload, opts.URL, secret))
              ELSE posts
  /\ UNCHANGED <<opts, body, sessionEnv, nodeVars, mutexVars, ctxDone, sessionVars, outFile,
                 connectedOnce, err, runErr, result, results, pc, parserVars>>

\* part_004 259-261: a deliverPayload promise settles while run is still
\* alive; onPayload resumes, pushes the result and prints it
onPayloadResume ==
  /\ pc \in {"node_read", "node_cleanup"}
  /\ \E i \in InFlight, env \in RunDeliveryEnvs :
       /\ result' = deliverPayload(WebhookPayload, opts.URL, secret, i, env)
       /\ results' = Append(results, deliverPayload(WebhookPayload, opts.URL, secret, i, env))
       /\ stdout' = stdout \o Printed(opts.Raw, <<Out("delivery", i, <<>>)>>)
  /\ UNCHANGED <<opts, body, sessionEnv, nodeVars, mutexVars, ctxDone, sessionVars, outFile,
                 connectedOnce, err, runErr, sinkVars, index, currentIndex, payload, pc,
                 parserVars>>

\* types.ts 110-112 and part_004 279-286: reader.read() reports done, or
\* the signal aborts it (AbortError, swallowed), or it throws (exit 1)
connectStreamEnd ==
  /\ pc = "node_read"
  /\ \E how \in {"done", "abort", "error"} :
       /\ err' = IF how = "done" THEN "nil" ELSE IF how = "abort" THEN "ctx" ELSE "read"
       /\ ctxDone' = (how = "abort")
       /\ IF how = "error"
          THEN /\ stdout' = Append(stdout, Out("error", 0, <<>>))
               /\ runErr' = "stream error"
               /\ pc' = "node_exited"
          ELSE /\ pc' = "node_cleanup"
               /\ UNCHANGED <<stdout, runErr>>
  /\ UNCHANGED <<opts, body, sessionEnv, nodeVars, mutexVars, sessionVars, outFile, connectedOnce,
                 sinkVars, recordVars, parserVars>>

\* part_004 288-313: the file is ended, the summary printed from results as
\* it stands, and process.exit ends the process
exit ==
  /\ pc = "node_cleanup"
  /\ outFile' = Closed(outFile)
  /\ stdout' = stdout
       \o (IF outFile # "nil" THEN Printed(opts.Raw, <<Out("info", index, <<>>)>>) ELSE <<>>)
       \o Printed(opts.Raw, <<IF opts.URL # "" THEN Out("summary", Len(results), results)
                                ELSE Out("received", index, <<>>)>>)
  /\ runErr' = IF \E j \in 1..Len(results) : ~results[j].success
               THEN "some deliveries failed" ELSE "nil"
  /\ pc' = "node_exited"
  /\ UNCHANGED <<opts, body, sessionEnv, nodeVars, mutexVars, ctxDone, sessionVars, connectedOnce, err,
                 sinkVars, recordVars, parserVars>>

NextNode ==
  \/ onPayload
  \/ onPayloadResume
  \/ connectStreamEnd
  \/ exit

\* the Node run from the opening of the stream to process.exit
SpecNode == InitNode /\ [][NextNode]_vars

\* ------------------------------------------------------ Node: run, from its start
\* part_006 5-39 and part_004 187-191: createSession returns a usable session
\* when fetch and res.json() do not throw, res.ok, success, and data is there
createSessionOk(env) ==
  /\ env.kind = "response"
  /\ env.decodes
  /\ env.status >= 200 /\ env.status < 300
  /\ env.success
  /\ env.data # <<>>

\* run at part_004 182, the flags validated
InitNodeRun ==
  /\ opts \in CliOptions
  /\ body = <<>>
  /\ sessionEnv \in (IF opts.APIKey = "" THEN {NoSession} ELSE SessionEnvs(opts.Secret))
  /\ mu = "free"
  /\ finalResults = <<>>
  /\ nodeEvent = <<>>
  /\ nodeCalls = <<>>
  /\ pos = 0
  /\ ctxDone = FALSE
  /\ pc = "node_start"
  /\ secret = opts.Secret
  /\ streamDuration = 60
  /\ streamRequest = NoRequest
  /\ outFile = "nil"
  /\ file = <<>>
  /\ stdout = <<>>
  /\ connectedOnce = FALSE
  /\ results = <<>>
  /\ index = 0
  /\ currentIndex = 0
  /\ filePayloads = 0
  /\ currentEvent = <<>>
  /\ payload = WebhookPayload
  /\ result = DeliveryResult(0, <<>>)
  /\ posts = <<>>
  /\ err = "unset"
  /\ runErr = "nil"
  /\ events = <<>>
  /\ calls = <<>>

\* part_004 182-202: with --api-key, printInfo, createSession and two more
\* printInfo, or printError (to stderr) and exit 1; else the given secret
resolveSession ==
  /\ pc = "node_start"
  /\ IF opts.APIKey # ""
     THEN IF createSessionOk(sessionEnv)
          THEN /\ secret' = sessionEnv.data[1].Secret
               /\ streamDuration' = sessionEnv.data[1].StreamDurationSeconds
               /\ stdout' = stdout \o <<Out("info", 0, <<>>), Out("info", 1, <<>>),
                                        Out("info", 2, <<>>)>>
               /\ pc' = "node_banner"
               /\ UNCHANGED runErr
          ELSE /\ stdout' = Append(stdout, Out("info", 0, <<>>))
               /\ runErr' = "failed to create session"
               /\ pc' = "node_exited"
               /\ UNCHANGED <<secret, streamDuration>>
     ELSE /\ pc' = "node_banner"
          /\ UNCHANGED <<secret, streamDuration, stdout, runErr>>
  /\ UNCHANGED <<opts, body, sessionEnv, nodeVars, mutexVars, ctxDone, streamRequest, outFile,
                 connectedOnce, err, sinkVars, recordVars, parserVars>>

\* part_004 204-233: printBanner, the file opened for appending with its
\* printInfo, and printConnecting unless --raw
openOutputs ==
  /\ pc = "node_banner"
  /\ stdout' = stdout \o <<Out("banner", 0, <<>>)>>
       \o (IF opts.File # "" THEN <<Out("info", 3, <<>>)>> ELSE <<>>)
       \o (IF ~opts.Raw THEN <<Out("connecting", 0, <<>>)>> ELSE <<>>)
  /\ outFile' = IF opts.File # "" THEN "open" ELSE "nil"
  /\ pc' = "node_read"
  /\ UNCHANGED <<opts, body, sessionEnv, nodeVars, mutexVars, ctxDone, sessionVars,
                 connectedOnce, err, runErr, sinkVars, recordVars, parserVars>>

NextNodeRun ==
  \/ resolveSession
  \/ openOutputs
  \/ onPayload
  \/ onPayloadResume
  \/ connectStreamEnd
  \/ exit

\* the Node run from the resolving of the session to process.exit
SpecNodeRun == InitNodeRun /\ [][NextNodeRun]_vars

\* ------------------------------------------------------ Node: connectStream
K_message == <<"m", "e", "s", "s", "a", "g", "e">>

\* parsed.message of a parsed JSON value: the string member, <<>> if there
\* is none or it is not a string
RECURSIVE MemberMessage(_, _)
MemberMessage(members, i) ==
  IF i > Len(members) THEN <<>>
  ELSE IF members[i][1] = K_message /\ members[i][2].t = "str" /\ MemberMessage(members, i + 1) = <<>>
  THEN members[i][2].v
  ELSE MemberMessage(members, i + 1)

\* types.ts 116-131, one pass of the for loop over line l with pending kind
\* cur: 'event: ' and 'data: ' are matched with the space; a line that is
\* neither resets the kind only when empty; an empty or '{}' body is passed
\* over with the kind kept
connectStreamLine(l, cur) ==
  IF HasPrefix(l, EventPrefix \o <<" ">>)
  THEN [event |-> TrimSpace(SubSeq(l, 8, Len(l))), dispatch |-> FALSE, data |-> <<>>]
  ELSE IF ~HasPrefix(l, DataPrefix \o <<" ">>)
  THEN [event |-> IF l = <<>> THEN <<>> ELSE cur, dispatch |-> FALSE, data |-> <<>>]
  ELSE IF SubSeq(l, 7, Len(l)) \in {<<>>, <<"{", "}">>}
  THEN [event |-> cur, dispatch |-> FALSE, data |-> <<>>]
  ELSE [event |-> <<>>, dispatch |-> TRUE, data |-> SubSeq(l, 7, Len(l))]

\* types.ts 133-148: JSON.parse, which skips white space around the value,
\* and the callback chosen by the pending kind; "none" when JSON.parse or
\* the reading of parsed.message throws
connectStreamDispatch(eventType, jsonStr) ==
  LET r == ParseJSON(TrimSpace(jsonStr))
      message == IF r.ok /\ r.val.t = "obj" THEN MemberMessage(r.val.v, 1) ELSE <<>>
  IN  IF ~r.ok THEN Call("none", StreamMeta, WebhookPayload, <<>>)
      ELSE IF eventType = KindMeta
      THEN Call("OnMeta", UnmarshalMeta(TrimSpace(jsonStr)).v, WebhookPayload, <<>>)
      ELSE IF eventType \in {KindComplete, KindError} /\ r.val.t = "null"
      THEN Call("none", StreamMeta, WebhookPayload, <<>>)
      ELSE IF eventType = KindComplete
      THEN Call("OnComplete", StreamMeta, WebhookPayload,
                IF message # <<>> THEN message ELSE <<"Stream complete">>)
      ELSE IF eventType = KindError
      THEN Call("OnError", StreamMeta, WebhookPayload,
                IF message # <<>> THEN message ELSE <<"Stream error">>)
      ELSE Call("OnPayload", StreamMeta, UnmarshalPayload(TrimSpace(jsonStr)).v, <<>>)

\* the lines both parsers are given
BothLines ==
  {LineComment, LineEmpty, LineEventMeta, LineEventComplete, LineDataA, LineDataB,
   LineDataEmptyObject, LineDataMeta}

\* both parsers before the first line of one stream
InitBoth ==
  /\ opts \in ParseOptions
  /\ body \in SeqsUpTo(BothLines, MaxBothLines)
  /\ sessionEnv = NoSession
  /\ mu = "free"
  /\ finalResults = <<>>
  /\ nodeEvent = <<>>
  /\ nodeCalls = <<>>
  /\ pos = 0
  /\ ctxDone = FALSE
  /\ pc = "lines"
  /\ secret = opts.Secret
  /\ streamDuration = 0
  /\ streamRequest = StreamRequest
  /\ outFile = "nil"
  /\ file = <<>>
  /\ stdout = <<>>
  /\ connectedOnce = FALSE
  /\ results = <<>>
  /\ index = 0
  /\ currentIndex = 0
  /\ filePayloads = 0
  /\ currentEvent = <<>>
  /\ payload = WebhookPayload
  /\ result = DeliveryResult(0, <<>>)
  /\ posts = <<>>
  /\ err = "unset"
  /\ runErr = "nil"
  /\ events = <<>>
  /\ calls = <<>>

\* stream.go 61-85 and types.ts 116-151 on the same next line
BothLine ==
  /\ pc = "lines"
  /\ pos < Len(body)
  /\ pos' = pos + 1
  /\ \E r \in {ParseLine(body[pos + 1], currentEvent)} :
     \E c \in {dispatchEvent(currentEvent, r.data)} :
       /\ currentEvent' = r.event
       /\ events' = IF r.dispatch
                    THEN Append(events, [kind |-> currentEvent, data |-> r.data]) ELSE events
       /\ calls' = IF r.dispatch /\ c.h # "none" THEN Append(calls, c) ELSE calls
  /\ \E n \in {connectStreamLine(body[pos + 1], nodeEvent)} :
     \E d \in {connectStreamDispatch(nodeEvent, n.data)} :
       /\ nodeEvent' = n.event
       /\ nodeCalls' = IF n.dispatch /\ d.h # "none" THEN Append(nodeCalls, d) ELSE nodeCalls
  /\ UNCHANGED <<opts, body, sessionEnv, mutexVars, ctxDone, sessionVars, outFile, stdout,
                 connectedOnce, err, runErr, sinkVars, recordVars, pc>>

NextBoth == BothLine

\* the two parsers fed the same stream line by line
SpecBoth == InitBoth /\ [][NextBoth]_vars

\* ------------------------------------------------------ properties
AnyFailed(rs) == \E i \in 1..Len(rs) : ~rs[i].Success

\* the callbacks invoked so far that were OnPayload
PayloadCalls == SelectSeq(calls, LAMBDA c : c.h = "OnPayload")

InOnPayload == pc \in {"onpayload", "raw", "file", "deliver", "append"}

\* C1: with a target URL, the k-th outcome collected has index k and belongs
\* to the k-th record handed to OnPayload, and between two stream events the
\* collection holds one outcome per record handed to OnPayload: the indices
\* are exactly 1..N, no gap, no duplicate, in arrival order.
C1_DenseIndices ==
  opts.URL # "" =>
    /\ \A k \in 1..Len(results) :
         /\ results[k].Index = k
         /\ k <= Len(PayloadCalls)
         /\ results[k].CommonName = PayloadCalls[k].payload.CommonName
    /\ ~InOnPayload => Len(results) = Len(PayloadCalls)
    /\ InOnPayload => Len(results) = Len(PayloadCalls) - 1

C1_Witness ==
  /\ opts.URL # ""
  /\ pc = "done"
  /\ Len(results) = 2
  /\ results[1].CommonName # results[2].CommonName
  /\ Len(body) = 3

\* C2: an outcome returned by DeliverPayload has success exactly when its
\* status is in [200, 300), and with status 0 it is a failure that carries
\* an error text; on the marshal, request, transport and response paths.
C2_OutcomeConsistent ==
  pc = "returned" =>
    /\ result.Success <=> (200 <= result.Status /\ result.Status < 300)
    /\ result.Status = 0 => (~result.Success /\ result.Error # "")

C2_Witness ==
  /\ pc = "returned"
  /\ result.Status = 0
  /\ result.Error = "received status"
  /\ Len(posts) = 1

\* C3: when Run has returned, a failed outcome means a non-zero exit whatever
\* ended the stream, and a stream that ended by end-of-data with no failed
\* outcome means exit 0.
C3_FailuresExitNonZero ==
  pc = "done" =>
    /\ AnyFailed(results) => ExitCode # 0
    /\ (err = "nil" /\ ~AnyFailed(results)) => ExitCode = 0

C3_Witness ==
  /\ pc = "done"
  /\ err = "ctx"
  /\ Len(results) = 2
  /\ ~results[1].Success
  /\ results[2].Success
  /\ ExitCode = 1

\* C4 as stated: once the stream has been tried, Run fails iff some outcome
\* failed.
C4_Original ==
  (pc = "done" /\ err # "unset") => (ExitCode # 0 <=> AnyFailed(results))

\* C4: once the stream has been tried, Run fails iff some outcome failed or
\* ConnectStream returned an error while the context is not cancelled.
C4_FailedIffFailureOrStreamError ==
  (pc = "done" /\ err # "unset") =>
    (ExitCode # 0 <=> (AnyFailed(results) \/ (err # "nil" /\ ~ctxDone)))

C4_Witness ==
  /\ pc = "done"
  /\ err = "status"
  /\ ~ctxDone
  /\ results = <<>>
  /\ opts.URL # ""
  /\ ExitCode = 1

\* C5: a cancellation that ends the stream before any record was processed
\* makes Run return an error.
C5_CancelBeforeOutputFails ==
  (pc = "done" /\ err = "ctx" /\ index = 0) => ExitCode # 0

\* C6: when a cancellation ended the stream and there is output, Run returns
\* the verdict on the deliveries: nil if all succeeded, the delivery-failure
\* error if one failed, never a stream error.
C6_CancelWithOutputIsClean ==
  (pc = "done" /\ err = "ctx" /\ hasOutput) =>
    runErr = (IF AnyFailed(results) THEN "some deliveries failed" ELSE "nil")

C6_Witness ==
  /\ pc = "done"
  /\ err = "ctx"
  /\ Len(results) = 1
  /\ results[1].Success
  /\ pos = 2
  /\ runErr = "nil"

\* C7: with no cancellation requested, a stream that could not be opened,
\* answered with another status than 200 or dropped makes Run return a
\* stream error, also when every delivery succeeded.
C7_ConnectionErrorFatal ==
  (pc = "done" /\ ~ctxDone /\ err \in {"request", "connect", "status", "read"}) =>
    (runErr = "stream error" /\ ExitCode # 0)

C7_Witness ==
  /\ pc = "done"
  /\ ~ctxDone
  /\ err = "read"
  /\ Len(results) = 2
  /\ ~AnyFailed(results)
  /\ runErr = "stream error"


\* the shapes of a stream line (stream.go, lines 64, 69, 74, 79)
IsCommentLine(l) == HasPrefix(l, <<":">>)

IsEventLine(l) == HasPrefix(l, EventPrefix)

IsDataLine(l) == HasPrefix(l, DataPrefix)

IsIgnoredLine(l) == IsCommentLine(l) \/ (l # <<>> /\ ~IsEventLine(l) /\ ~IsDataLine(l))

\* the number of lines that have gone through the loop body (no signal)
Processed == IF pc = "check" THEN pos - 1 ELSE pos

\* the data lines among the first n lines of the body
DataLinesUpTo(n) == {i \in 1..n : IsDataLine(body[i])}

\* the line number of the k-th data line
NthDataLine(k) ==
  CHOOSE i \in DataLinesUpTo(Len(body)) : Cardinality(DataLinesUpTo(i)) = k

\* the last empty or event line before line i, 0 if there is none
LastControlLine(i) ==
  LET C == {j \in 1..(i - 1) : body[j] = <<>> \/ IsEventLine(body[j])}
  IN  IF C = {} THEN 0 ELSE CHOOSE j \in C : \A m \in C : m <= j

\* C8: a comment line, and a line that is neither empty nor an event or data
\* line, dispatches nothing and leaves the pending kind as it was; so a data
\* line right after "event: X" and one such line is dispatched with kind X.
C8_IgnoredLinesKeepKind ==
  /\ [][(pc = "check" /\ ~ctxDone /\ IsIgnoredLine(body[pos])) =>
          (currentEvent' = currentEvent /\ events' = events /\ calls' = calls
             /\ pc' = "scan")]_vars
  /\ [](\A k \in 1..Len(events) :
          LET i == NthDataLine(k)
          IN  (i >= 3 /\ IsIgnoredLine(body[i - 1]) /\ IsEventLine(body[i - 2])) =>
                events[k].kind = TrimSpace(TrimPrefix(body[i - 2], EventPrefix)))

C8_Witness ==
  /\ Len(body) = 3
  /\ body[1] = LineEventMeta
  /\ body[2] = LineComment
  /\ body[3] = LineDataMeta
  /\ pc = "done"
  /\ Len(events) = 1
  /\ events[1].kind = KindMeta
  /\ Len(calls) = 1
  /\ calls[1].h = "OnMeta"

\* C9: a data line whose last preceding empty-or-event line is an empty line
\* is dispatched with the unset kind, whatever was pending before.
C9_EmptyLineResets ==
  \A k \in 1..Len(events) :
    LET j == LastControlLine(NthDataLine(k))
    IN  (j > 0 /\ body[j] = <<>>) => events[k].kind = <<>>

C9_Witness ==
  /\ Len(body) = 3
  /\ body[1] = LineEventMeta
  /\ body[2] = LineEmpty
  /\ body[3] = LineDataA
  /\ pc = "done"
  /\ Len(events) = 1
  /\ events[1].kind = <<>>
  /\ Len(calls) = 1
  /\ calls[1].h = "OnPayload"

\* C10: every data line gone through the loop has produced exactly one pair,
\* in line order, made of the trimmed rest of the line and of the kind set by
\* the last event line when no empty line follows it: the data lines after
\* one "event: X" line all carry kind X.
C10_OnePairPerDataLine ==
  /\ Len(events) = Cardinality(DataLinesUpTo(Processed))
  /\ \A k \in 1..Len(events) :
       LET i == NthDataLine(k)
           j == LastControlLine(i)
       IN  /\ events[k].data = TrimSpace(TrimPrefix(body[i], DataPrefix))
           /\ (j > 0 /\ IsEventLine(body[j])) =>
                events[k].kind = TrimSpace(TrimPrefix(body[j], EventPrefix))

C10_Witness ==
  /\ Len(body) = 3
  /\ body[1] = LineEventComplete
  /\ body[2] = LineDataB
  /\ body[3] = LineDataBad
  /\ pc = "done"
  /\ Len(events) = 2
  /\ events[1].kind = KindComplete
  /\ events[2].kind = KindComplete
  /\ events[1].data = BodyB
  /\ Len(calls) = 2

\* the trimmed rest of a data line (stream.go, lines 80-81)
DataOf(l) == TrimSpace(TrimPrefix(l, DataPrefix))

RawKinds == {KindComplete, KindError}

\* a body of kind meta or of the default kind that does not decode
DecodeFails(kind, data) ==
  \/ kind = KindMeta /\ ~UnmarshalMeta(data).ok
  \/ kind \notin (RawKinds \cup {KindMeta}) /\ ~UnmarshalPayload(data).ok

RawCalls == SelectSeq(calls, LAMBDA c : c.h \in {"OnComplete", "OnError"})

RawEvents == SelectSeq(events, LAMBDA e : e.kind \in RawKinds)

RecordEvents ==
  SelectSeq(events, LAMBDA e : e.kind \notin (RawKinds \cup {KindMeta})
                                 /\ UnmarshalPayload(e.data).ok)

\* C11: a data line of kind meta or default whose body does not decode
\* invokes no handler, takes no index, appends no outcome and leaves the
\* stream being read; every default-kind body that decodes is handed to
\* OnPayload and takes the next index; every complete or error data line
\* reaches its handler with the raw text.
C11_DecodeFailureSkipsRecord ==
  /\ [][(pc = "check" /\ IsDataLine(body[pos]) /\ events' # events
           /\ DecodeFails(currentEvent, DataOf(body[pos]))) =>
          (calls' = calls /\ index' = index /\ results' = results /\ pc' = "scan")]_vars
  /\ [](/\ Len(PayloadCalls) = Len(RecordEvents)
        /\ index = Len(PayloadCalls) - (IF pc = "onpayload" THEN 1 ELSE 0)
        /\ \A k \in 1..Len(results) : results[k].Index = k
        /\ Len(RawCalls) = Len(RawEvents)
        /\ \A k \in 1..Len(RawCalls) : RawCalls[k].message = RawEvents[k].data)

C11_Witness ==
  /\ body = <<LineDataBad, LineDataA, LineEventComplete, LineDataBad>>
  /\ pc = "done"
  /\ err = "nil"
  /\ Len(events) = 3
  /\ Len(calls) = 2
  /\ calls[1].h = "OnPayload"
  /\ calls[2].h = "OnComplete"
  /\ calls[2].message = BodyBad
  /\ index = 1
  /\ Len(results) = 1
  /\ results[1].Index = 1

\* the positions of ConnectStream's read loop and of the callback it calls
Streaming == {"scan", "check", "scanerr", "onpayload", "raw", "file", "deliver", "append"}

ErrorSeen == \E i \in 1..Len(calls) : calls[i].h = "OnError"

\* C12 as stated: once an error event has been received no further index is
\* assigned, no file line is written and no delivery is made.
C12_Original ==
  [][ErrorSeen => (index' = index /\ file' = file /\ posts' = posts)]_vars

\* C12: an error event is handed to OnError and the loop goes on to the next
\* line with no sink touched; the read loop is left only at end of data, on
\* a scanner error, or when the check between lines sees the cancellation;
\* a well-formed record after an error event is handed to OnPayload.
C12_ErrorEventDoesNotEndStream ==
  /\ [][(pc = "check" /\ events' # events /\ currentEvent = KindError) =>
          /\ pc' = "scan"
          /\ calls' = Append(calls, Call("OnError", StreamMeta, WebhookPayload, DataOf(body[pos])))
          /\ index' = index /\ file' = file /\ posts' = posts /\ err' = err]_vars
  /\ [][(pc \in Streaming /\ pc' \notin Streaming) =>
          \/ pc = "scan" /\ pos = Len(body) /\ err' = "nil"
          \/ pc = "scanerr" /\ err' \in {"ctx", "read"}
          \/ pc = "check" /\ ctxDone /\ err' = "ctx"]_vars
  /\ [](Len(PayloadCalls) = Len(RecordEvents))

C12_Witness ==
  /\ body = <<LineEventError, LineDataA, LineEmpty, LineDataA>>
  /\ pc = "done"
  /\ Len(calls) = 2
  /\ calls[1].h = "OnError"
  /\ calls[1].message = BodyA
  /\ calls[2].h = "OnPayload"
  /\ index = 1
  /\ Len(posts) = 1
  /\ Len(results) = 1
  /\ filePayloads = 1

\* how many times "Connected" has been written
NumConnected == Len(SelectSeq(stdout, LAMBDA e : e.k = "connected"))

\* a meta event or a record has reached its handler
FirstEventSeen == \E i \in 1..Len(calls) : calls[i].h \in {"OnMeta", "OnPayload"}

\* ConnectStream returned before the response body was read
OpenFailed == err \in {"request", "connect", "status"}

RecordLines == SelectSeq(stdout, LAMBDA e : e.k = "record")

\* how many records have got past the steps of the callback named in S
Passed(S) == IF pc \in S THEN index - 1 ELSE index

\* C14: the index is taken before any sink runs, and the raw echo, the file
\* append and the POST of a record happen in that order: at every point of
\* the callback each active sink has handled every earlier record, a sink
\* has handled the current one only if the sinks before it have, and an
\* inactive sink has handled none.
C14_SinkOrder ==
  /\ index = Len(PayloadCalls) - (IF pc = "onpayload" THEN 1 ELSE 0)
  /\ pc \in {"raw", "file", "deliver", "append"} => currentIndex = index
  /\ Len(RecordLines) = (IF opts.Raw THEN Passed({"raw"}) ELSE 0)
  /\ filePayloads = (IF opts.File # "" THEN Passed({"raw", "file"}) ELSE 0)
  /\ Len(posts) = (IF opts.URL # "" THEN Passed({"raw", "file", "deliver"}) ELSE 0)
  /\ Len(results) = (IF opts.URL # "" THEN Passed({"raw", "file", "deliver", "append"}) ELSE 0)

C14_Witness ==
  /\ opts.Raw /\ opts.File # "" /\ opts.URL # ""
  /\ pc = "deliver"
  /\ index = 2
  /\ currentIndex = 2
  /\ Len(RecordLines) = 2
  /\ filePayloads = 2
  /\ Len(posts) = 1

\* a is b with some elements left out
RECURSIVE IsSubseq(_, _)
IsSubseq(a, b) ==
  IF a = <<>> THEN TRUE
  ELSE IF b = <<>> THEN FALSE
  ELSE IF Head(a) = Head(b) THEN IsSubseq(Tail(a), Tail(b))
  ELSE IsSubseq(a, Tail(b))

\* the lines the run has added to the file
Added == SubSeq(file, Len(FileAtStart) + 1, Len(file))

\* the compact JSON line of each record handed to OnPayload, in call order
PayloadLines == [k \in 1..Len(PayloadCalls) |-> MarshalPayload(PayloadCalls[k].payload)]

\* nothing of any record is pending
AllSinksDone ==
  /\ Len(RecordLines) = (IF opts.Raw THEN index ELSE 0)
  /\ filePayloads = (IF opts.File # "" THEN index ELSE 0)
  /\ Len(posts) = (IF opts.URL # "" THEN index ELSE 0)
  /\ Len(results) = Len(posts)

\* C15: a line is read only when every sink and the outcome append of
\* every earlier record are done; at most one request is without its
\* appended outcome; stdout, the POSTs and the outcomes follow the arrival
\* order of the records, and so do the lines added to the file.
C15_RecordProcessedBeforeNextRead ==
  /\ [][pos' # pos => (AllSinksDone /\ pc = "scan" /\ index = Len(PayloadCalls))]_vars
  /\ [](/\ pc \in {"scan", "check", "scanerr"} => AllSinksDone
        /\ Len(posts) - Len(results) \in {0, 1}
        /\ \A k \in 1..Len(RecordLines) : RecordLines[k].text = PayloadLines[k]
        /\ \A k \in 1..Len(posts) : posts[k].body = PayloadLines[k]
        /\ \A k \in 1..Len(results) :
             /\ results[k].Index = k
             /\ results[k].CommonName = PayloadCalls[k].payload.CommonName
        /\ opts.File # "" => IsSubseq(Added, PayloadLines))

C15_Witness ==
  /\ opts.Raw /\ opts.File # "" /\ opts.URL # ""
  /\ pc = "check"
  /\ pos = 3
  /\ body[1] = LineDataA
  /\ body[2] = LineDataB
  /\ index = 2
  /\ Len(results) = 2
  /\ Len(RecordLines) = 2
  /\ Added = PayloadLines
  /\ PayloadLines[1] # PayloadLines[2]

\* C16: in raw mode stdout holds nothing but the compact JSON line of each
\* record handed to OnPayload, in call order, one per record that has got
\* past the echo, on every path of the run.
C16_RawStdoutOnlyRecords ==
  opts.Raw =>
    /\ Len(stdout) = Passed({"raw"})
    /\ \A k \in 1..Len(stdout) : stdout[k] = Out("record", 0, PayloadLines[k])

C16_Witness ==
  /\ opts.Raw /\ opts.APIKey # "" /\ opts.URL # "" /\ opts.File # ""
  /\ pc = "done"
  /\ err = "read"
  /\ index = 2
  /\ Len(results) = 2
  /\ stdout = <<Out("record", 0, PayloadLines[1]), Out("record", 0, PayloadLines[2])>>

\* the content the file had when the run started is still its beginning
StartIsPrefix ==
  /\ Len(file) >= Len(FileAtStart)
  /\ SubSeq(file, 1, Len(FileAtStart)) = FileAtStart

\* C17 as stated: the start content is a prefix of the file and the added
\* lines are exactly the lines of the records that have got past the file
\* step, in arrival order.
C17_Original ==
  opts.File # "" =>
    /\ StartIsPrefix
    /\ Added = SubSeq(PayloadLines, 1, Passed({"raw", "file"}))

\* C17: the file changes only at the file step of the callback and only by
\* the current record's line being appended, so the start content stays a
\* prefix; the added lines are, in arrival order, the lines of the records
\* whose append was carried out, and all of them when no append failed.
C17_FileOnlyAppended ==
  /\ [][file' # file =>
          (pc = "file" /\ outFile = "open" /\ file' = Append(file, MarshalPayload(payload)))]_vars
  /\ [](IF opts.File = "" THEN file = <<>>
        ELSE /\ StartIsPrefix
             /\ IsSubseq(Added, SubSeq(PayloadLines, 1, Passed({"raw", "file"})))
             /\ Len(Added) <= filePayloads
             /\ Len(Added) = filePayloads =>
                  Added = SubSeq(PayloadLines, 1, Passed({"raw", "file"})))

C17_Witness ==
  /\ opts.File # ""
  /\ pc = "done"
  /\ index = 2
  /\ filePayloads = 2
  /\ PayloadLines[1] # PayloadLines[2]
  /\ file = FileAtStart \o <<PayloadLines[2]>>

\* Run returned before the file was opened
ReturnedBeforeOpen == runErr \in {"failed to create session", "failed to open output file"}

\* C18: the handle is opened at the open step and closed only on the step
\* that ends Run, never twice; a returned Run never leaves it open, and a
\* run that got past the open step with --file ends with it closed; once
\* closed nothing is written through it.
C18_FileClosedOnceAtDone ==
  /\ [][outFile' # outFile =>
          \/ pc = "openfile" /\ outFile = "nil" /\ outFile' = "open"
          \/ pc # "done" /\ pc' = "done" /\ outFile = "open" /\ outFile' = "closed"]_vars
  /\ [][outFile = "closed" => (file' = file /\ filePayloads' = filePayloads)]_vars
  /\ [](/\ pc = "done" => outFile # "open"
        /\ outFile = "closed" => pc = "done"
        /\ (pc = "done" /\ opts.File # "" /\ ~ReturnedBeforeOpen) => outFile = "closed"
        /\ opts.File = "" => outFile = "nil")

C18_Witness ==
  /\ opts.File # ""
  /\ pc = "done"
  /\ outFile = "closed"
  /\ ctxDone
  /\ err = "ctx"
  /\ filePayloads = 1
  /\ runErr = "nil"

\* C19: a request is sent only at the delivery step of the callback, one
\* per step, and it is the current record's; there are never more requests
\* than records that have reached that step, and one outcome per record
\* that has left the callback; an outcome without an HTTP status, as a
\* timeout or a transport failure gives, is a failure with its error set.
C19_NoRetry ==
  /\ [][posts' # posts =>
          /\ pc = "deliver"
          /\ posts' = Append(posts, DeliveryRequest(payload, opts.URL, secret))
          /\ result'.Index = currentIndex]_vars
  /\ [](IF opts.URL = "" THEN posts = <<>> /\ results = <<>>
        ELSE /\ Len(posts) <= Passed({"raw", "file", "deliver"})
             /\ Len(results) = Passed({"raw", "file", "deliver", "append"})
             /\ \A k \in 1..Len(posts) :
                  /\ posts[k].url = opts.URL
                  /\ posts[k].eventId = PayloadCalls[k].payload.EventID
             /\ \A k \in 1..Len(results) :
                  /\ results[k].Error = "delivery failed" => results[k].Status = 0
                  /\ results[k].Status = 0 => (~results[k].Success /\ results[k].Error # ""))

C19_Witness ==
  /\ opts.URL # ""
  /\ pc = "done"
  /\ Len(posts) = 2
  /\ Len(results) = 2
  /\ results[1].Error = "delivery failed"
  /\ results[1].Status = 0
  /\ ~results[1].Success
  /\ results[2].Success
  /\ posts[1].eventId # posts[2].eventId

\* the session has been resolved: Run is past its set-up of the secret
SecretResolved == pc # "start" /\ runErr # "failed to create session"

\* C20: every request carries "sha256=" and the signature, under the
\* resolved secret, of the very body it sends, which is the record's compact
\* JSON; the stream request carries the same secret as bearer credential;
\* the resolved secret is the --secret flag in secret mode and the secret
\* the session returned in API-key mode, and it never changes afterwards.
C20_SignatureOverSentBody ==
  /\ [][pc # "start" => secret' = secret]_vars
  /\ [](/\ \A k \in 1..Len(posts) :
             /\ posts[k].body = PayloadLines[k]
             /\ posts[k].signature = <<"sha256=", SignPayload(posts[k].body, secret)>>
        /\ streamRequest # NoRequest => streamRequest.authorization = <<"Bearer ", secret>>
        /\ opts.APIKey = "" => secret = opts.Secret
        /\ (opts.APIKey # "" /\ SecretResolved) => secret \in SessionSecrets(opts.Secret))

C20_Witness ==
  /\ opts.APIKey # ""
  /\ opts.Secret = ""
  /\ secret = "srv"
  /\ pc = "done"
  /\ Len(posts) = 2
  /\ posts[1].signature = <<"sha256=", <<"hmac-sha256", "srv", PayloadLines[1]>>>>
  /\ posts[2].signature = <<"sha256=", <<"hmac-sha256", "srv", PayloadLines[2]>>>>
  /\ posts[1].signature # posts[2].signature
  /\ streamRequest.authorization = <<"Bearer ", "srv">>

\* C21: when the request cannot be sent, the connection cannot be opened or
\* the response status is not 200, ConnectStream returns its error straight
\* from the connect step: no line is read, no handler is called, no index is
\* taken and no sink is written.
C21_OpenFailureCallsNoHandler ==
  /\ [][(pc = "connect" /\ pc' \notin {"connect", "scan"}) =>
          (pc' = "finish" /\ err' \in {"request", "connect", "status"} /\ calls' = <<>>)]_vars
  /\ [](OpenFailed =>
          /\ pos = 0 /\ events = <<>> /\ calls = <<>>
          /\ index = 0 /\ results = <<>> /\ posts = <<>>
          /\ filePayloads = 0 /\ RecordLines = <<>>
          /\ file = (IF opts.File # "" THEN FileAtStart ELSE <<>>)
          /\ pc \in {"finish", "finish2", "done"})

C21_Witness ==
  /\ err = "status"
  /\ pc = "done"
  /\ Len(body) = 3
  /\ body[1] = LineDataA
  /\ opts.URL # "" /\ opts.File # "" /\ opts.Raw
  /\ calls = <<>>
  /\ posts = <<>>
  /\ stdout = <<>>
  /\ runErr = "stream error"

\* a response came back with a status outside 200..299, or with a body
\* that is not success=true with a data block
SessionRejected ==
  /\ sessionEnv.kind = "response"
  /\ \/ sessionEnv.status \notin 200..299
     \/ ~sessionEnv.decodes
     \/ ~sessionEnv.success
     \/ sessionEnv.data = <<>>

\* C22: for such a response CreateSession returns an error and no session,
\* and Run returns "failed to create session" from its set-up step with the
\* stream not requested, the file not opened and no sink touched; a run
\* that got past the set-up in API-key mode holds the secret of a data block
\* that is present.
C22_RejectedSessionStopsRun ==
  /\ SessionRejected =>
       /\ CreateSession(sessionEnv, ctxDone).err # "nil"
       /\ CreateSession(sessionEnv, ctxDone).sess = <<>>
  /\ (SessionRejected /\ pc # "start") =>
       /\ pc = "done"
       /\ runErr = "failed to create session"
       /\ streamRequest = NoRequest /\ err = "unset" /\ pos = 0
       /\ outFile = "nil"
       /\ file = (IF opts.File # "" THEN FileAtStart ELSE <<>>)
       /\ filePayloads = 0 /\ index = 0 /\ calls = <<>> /\ posts = <<>> /\ results = <<>>
       /\ RecordLines = <<>>
       /\ secret = opts.Secret
  /\ (opts.APIKey # "" /\ SecretResolved) =>
       /\ sessionEnv.data # <<>>
       /\ secret = sessionEnv.data[1].Secret

C22_Witness ==
  /\ sessionEnv.kind = "response"
  /\ sessionEnv.status = 200
  /\ sessionEnv.decodes
  /\ sessionEnv.success
  /\ sessionEnv.data = <<>>
  /\ opts.File # "" /\ opts.URL # ""
  /\ Len(body) = 1
  /\ pc = "done"
  /\ runErr = "failed to create session"
  /\ file = FileAtStart

\* the figures of the summary that has been printed
Summary == SelectSeq(stdout, LAMBDA e : e.k = "summary")[1].text

SummaryPrinted == \E i \in 1..Len(stdout) : stdout[i].k = "summary"

\* C23: the printed summary has total = number of outcomes, succeeded =
\* number of successful ones, failed = total - succeeded; with outcomes the
\* average is the integer quotient of the latency sum by total (20 for
\* 10, 20, 30) and the percentage is succeeded/total to one decimal; with
\* none both are 0.
C23_SummaryArithmetic ==
  SummaryPrinted =>
    /\ Summary.total = Len(results)
    /\ Summary.succeeded = Cardinality({i \in 1..Len(results) : results[i].Success})
    /\ Summary.succeeded + Summary.failed = Summary.total
    /\ Summary.failed >= 0
    /\ IF Summary.total = 0
       THEN Summary.avgMs = 0 /\ Summary.pct = 0
       ELSE /\ Summary.avgMs * Summary.total <= TotalLatency(results)
            /\ TotalLatency(results) < (Summary.avgMs + 1) * Summary.total
            /\ 2 * Summary.pct * Summary.total - 2000 * Summary.succeeded
                 \in (1 - Summary.total)..Summary.total
    /\ [k \in 1..Len(results) |-> results[k].LatencyMs] = <<10, 20, 30>> => Summary.avgMs = 20

C23_Witness ==
  /\ pc = "printed"
  /\ [k \in 1..Len(results) |-> results[k].LatencyMs] = <<10, 20, 30>>
  /\ [k \in 1..Len(results) |-> results[k].Success] = <<TRUE, FALSE, TRUE>>
  /\ Summary.total = 3 /\ Summary.succeeded = 2 /\ Summary.failed = 1
  /\ Summary.avgMs = 20
  /\ Summary.pct = 667

\* what the calls of SignPayload have returned
Digests == SelectSeq(stdout, LAMBDA e : e.k = "digest")

HexDigits == {HexTable[i] : i \in 1..16}

C25_Original ==
  (pc = "done" /\ err = "read") => runErr = "stream error"

\* C25: a scanner error is returned as a read error only if the context is
\* not cancelled when ConnectStream classifies it, and as the context's
\* error otherwise; Run reports a returned read error as a stream error
\* only if the context is still not cancelled when Run returns, and returns
\* the verdict on the deliveries otherwise.
C25_ReadErrorUnlessCancelledByThen ==
  /\ [][(pc = "scanerr" /\ pc' = "finish") =>
          err' = (IF ctxDone THEN "ctx" ELSE "read")]_vars
  /\ []((pc = "done" /\ err = "read") =>
          runErr = (IF ctxDone THEN checkForFailures(results) ELSE "stream error"))
  /\ []((pc = "done" /\ err = "read" /\ ~ctxDone) => ExitCode = 1)

C25_Witness ==
  /\ pc = "done"
  /\ err = "read"
  /\ ctxDone
  /\ Len(results) = 1
  /\ results[1].Success
  /\ runErr = "nil"
  /\ ExitCode = 0

\* where Run is once a line may be read or the stream has been left
BetweenLines == {"scan", "check", "scanerr", "finish", "finish2", "done"}

\* C26: a line read with the context cancelled is not dispatched: the
\* check-point returns the context's error; from a cancelled context seen
\* outside the callback on, no handler is called, no index is taken and no
\* sink is written; a callback entered before the signal runs to its end.
C26_CancelSeenBetweenLines ==
  /\ [][(ctxDone /\ pc = "check") =>
          (pc' = "finish" /\ err' = "ctx" /\ pos' = pos)]_vars
  /\ [][(ctxDone /\ pc \in BetweenLines) =>
          /\ pc' \in BetweenLines
          /\ calls' = calls /\ events' = events /\ index' = index
          /\ posts' = posts /\ results' = results
          /\ file' = file /\ filePayloads' = filePayloads
          /\ RecordLines' = RecordLines]_vars
  /\ [][(ctxDone /\ pc \in {"raw", "file", "deliver", "append"}) =>
          (pc' \notin {"finish", "finish2", "done"} /\ index' = index)]_vars

C26_Witness ==
  /\ pc = "done"
  /\ ctxDone
  /\ err = "ctx"
  /\ body = <<LineDataA, LineDataB, LineDataA>>
  /\ pos = 2
  /\ index = 1
  /\ Len(calls) = 1
  /\ Len(results) = 1
  /\ opts.URL # "" /\ opts.File # "" /\ opts.Raw
  /\ filePayloads = 1
  /\ Len(RecordLines) = 1

\* Run has returned with the file closed and, with --url and decoration,
\* the summary of the outcomes printed
Finalized ==
  /\ pc = "done"
  /\ outFile # "open"
  /\ (opts.URL # "" /\ ~opts.Raw) => (SummaryPrinted /\ Summary = PrintSummary(results))

\* C27: once the read loop has ended (end of data, scanner error, or the
\* check-point seeing the cancellation) Run goes on to close the file,
\* print the summary and return; and from any point of the stream at which
\* the context is cancelled, a blocked read included, Run returns.
C27_LeavingStreamingReachesDone ==
  (pc \in {"scanerr", "finish", "finish2"} \/ (ctxDone /\ pc \in Streaming)) ~> Finalized

C27_Witness ==
  /\ Finalized
  /\ ctxDone
  /\ err = "ctx"
  /\ pos < Len(body)
  /\ outFile = "closed"
  /\ opts.URL # "" /\ ~opts.Raw
  /\ Summary.total = 1

\* C28: index, currentIndex's read of it, results and the final copy change
\* only in steps taken with mu held; mu is free while DeliverPayload is in
\* flight; and the copy the summary is computed from is the whole of results,
\* one outcome per record delivered.
C28_SharedStateUnderMutex ==
  /\ [][(index' # index \/ currentIndex' # currentIndex \/ results' # results
           \/ finalResults' # finalResults) => (mu = "held" /\ mu' = "held")]_vars
  /\ [](pc = "delivering" => mu = "free")
  /\ [](pc \in {"aggregate", "done"} =>
          /\ finalResults = results
          /\ opts.URL # "" => Len(finalResults) = index)

C28_Witness ==
  /\ pc = "done"
  /\ mu = "free"
  /\ opts.URL # "" /\ opts.File # ""
  /\ index = 2
  /\ Len(finalResults) = 2
  /\ finalResults[1].Success /\ ~finalResults[2].Success
  /\ filePayloads = 2

\* C29: in the Node run at most one delivery is in flight, results holds
\* the outcomes in index order, and at process.exit every record handed to
\* onPayload with --url has its outcome in results.
C29_NodeDeliveriesSequential ==
  /\ Cardinality(InFlight) <= 1
  /\ \A j \in 1..Len(results) : results[j].index = j
  /\ (pc = "node_exited" /\ runErr # "stream error") => InFlight = {}

\* the names of the callbacks invoked, in order
Handlers(cs) == [i \in 1..Len(cs) |-> cs[i].h]

\* C30: after every line of every stream, the Go parser and the Node parser
\* have invoked the same callbacks in the same order.
C30_ParsersInvokeSameHandlers == Handlers(calls) = Handlers(nodeCalls)

\* C31: with --raw, the Node run writes nothing to standard output but
\* record lines.
C31_NodeRawStdoutOnlyRecords ==
  opts.Raw => \A i \in 1..Len(stdout) : stdout[i].k = "record"

\* C32: the file step of the callback, whether or not the line was written,
\* goes on to the delivery and leaves the index, the record, the outcomes,
\* the requests and the output as they were, counting the record as saved;
\* with a target URL every record past the callback has its outcome, the
\* k-th with index k; and a cancelled run with the file open and a record
\* taken returns the verdict on the deliveries, whatever the file holds.
C32_FileFailureChangesNothingElse ==
  /\ [][(pc = "file" /\ pc' # "file") =>
          (/\ pc' = "deliver"
           /\ index' = index /\ currentIndex' = currentIndex /\ payload' = payload
           /\ result' = result /\ results' = results /\ posts' = posts
           /\ stdout' = stdout /\ err' = err /\ runErr' = runErr
           /\ filePayloads' = IF outFile # "nil" THEN filePayloads + 1 ELSE filePayloads)]_vars
  /\ [](opts.URL # "" =>
          /\ Len(results) = Passed({"raw", "file", "deliver", "append"})
          /\ \A k \in 1..Len(results) : results[k].Index = k)
  /\ [][(pc = "finish" /\ err # "nil" /\ ctxDone /\ outFile = "open" /\ index > 0) =>
          (pc' = "done" /\ runErr' = checkForFailures(results))]_vars

C32_Witness ==
  /\ pc = "done"
  /\ opts.URL # "" /\ opts.File # ""
  /\ index = 2
  /\ filePayloads = 2
  /\ Added = <<PayloadLines[2]>>
  /\ PayloadLines[1] # PayloadLines[2]
  /\ Len(posts) = 2
  /\ results[1].Index = 1 /\ results[1].Success
  /\ results[2].Index = 2 /\ results[2].Success
  /\ runErr = "nil"

\* C33: with a target URL, index - len(results) is 0 or 1, and 1 exactly
\* while the callback is between taking the index and appending the
\* outcome; once the stream is left results holds one outcome per record
\* handed to OnPayload, and the printed summary counts them all.
C33_IndexAheadByAtMostOne ==
  opts.URL # "" =>
    /\ index - Len(results) \in {0, 1}
    /\ index - Len(results) = 1 <=> pc \in {"raw", "file", "deliver", "append"}
    /\ pc \in {"finish", "finish2", "done"} =>
         (Len(results) = index /\ index = Len(PayloadCalls))
    /\ SummaryPrinted => Summary.total = Len(PayloadCalls)

C33_Witness ==
  /\ opts.URL # "" /\ ~opts.Raw
  /\ pc = "done"
  /\ Len(PayloadCalls) = 2
  /\ index = 2
  /\ Len(results) = 2
  /\ ~results[1].Success /\ results[2].Success
  /\ SummaryPrinted
  /\ Summary.total = 2 /\ Summary.failed = 1

\* the kinds dispatchEvent has a case of its own for
ControlKinds == {KindMeta, KindComplete, KindError}

\* C34: the step that handles a meta, complete or error event leaves the
\* index, the outcomes, the file, the saved count and the requests as they
\* were and returns to reading; these change only inside the OnPayload
\* callback, and the callback is entered only for a data line of another
\* kind whose body decodes.
C34_ControlEventsChangeNoRecordState ==
  /\ [][(pc = "check" /\ events' # events /\ events'[Len(events')].kind \in ControlKinds) =>
          (/\ pc' = "scan"
           /\ index' = index /\ results' = results /\ file' = file
           /\ filePayloads' = filePayloads /\ posts' = posts)]_vars
  /\ [][(index' # index \/ results' # results \/ file' # file
           \/ filePayloads' # filePayloads \/ posts' # posts) =>
          (pc \in {"onpayload", "raw", "file", "deliver", "append"})]_vars
  /\ [][(pc # "onpayload" /\ pc' = "onpayload") =>
          (/\ events' # events
           /\ events'[Len(events')].kind \notin ControlKinds
           /\ UnmarshalPayload(events'[Len(events')].data).ok)]_vars

C34_Witness ==
  /\ pc = "scan"
  /\ Len(calls) = 3
  /\ calls[1].h = "OnPayload"
  /\ calls[2].h = "OnError"
  /\ calls[3].h = "OnError"
  /\ pos = 4
  /\ index = 1
  /\ Len(results) = 1
  /\ filePayloads = 1
  /\ Len(posts) = 1

\* C35: the count of saved payloads is the number of lines the run has added
\* to the file, and the line Run prints on leaving the stream, with --file
\* and decoration, reports that number.
C35_SavedCountIsLinesAppended ==
  /\ [](opts.File # "" => filePayloads = Len(Added))
  /\ [][(pc = "finish" /\ pc' # "finish" /\ opts.File # "" /\ ~opts.Raw) =>
          stdout'[Len(stdout) + 1] = Out("info", Len(Added), <<>>)]_vars

====
